---- MODULE Spec2Model ----
(***************************************************************************)
(* A state-machine model of rta::core::SpectralSolver (rawtoaces core):    *)
(* the solver's data members, its public operations (find_camera,          *)
(* find_illuminant by name and by white-balance vector, calculate_WB,      *)
(* calculate_IDT_matrix, load_spectral_data) and the helpers they call.    *)
(*                                                                         *)
(* Numbers.  The code works on doubles.  The model works on exact          *)
(* rationals <<n, d>> (d > 0, lowest terms), extended with +infinity       *)
(* <<1, 0>> for the IEEE result of dividing a positive number by zero.     *)
(* Spectra are short sequences of rationals (a coarse wavelength grid in   *)
(* place of the 81-sample grid).  Strings are sequences of one-character   *)
(* strings, so that tolower, atoi and std::to_string are computed.         *)
(***************************************************************************)
EXTENDS Integers, Sequences, FiniteSets, TLC

(***************************************************************************)
(* Bounds of the model.                                                    *)
(***************************************************************************)
\* number of public calls made on the solver in one behaviour
MaxCalls == 7
\* number of public calls in one behaviour of the search specification
MaxWBCalls == 2
\* significand width of the floating-point format standing for double, whose
\* significand has 53 bits
MantissaBits == 4

(***************************************************************************)
(* Exact arithmetic standing for double arithmetic.                        *)
(***************************************************************************)
Abs(x) == IF x < 0 THEN -x ELSE x

RECURSIVE GCD(_, _)
GCD(a, b) == IF b = 0 THEN a ELSE GCD(b, a % b)

\* the rational n/d in lowest terms, d > 0
Rat(n, d) ==
    LET s == IF d < 0 THEN -1 ELSE 1
        g == GCD(Abs(n), Abs(d))
    IN  <<(s * n) \div g, (s * d) \div g>>

Inf == <<1, 0>>
IsInf(x) == x[2] = 0
Zero == <<0, 1>>
One == <<1, 1>>

RAdd(a, b) ==
    IF IsInf(a) \/ IsInf(b) THEN Inf
    ELSE LET g == GCD(a[2], b[2])
         IN  Rat(a[1] * (b[2] \div g) + b[1] * (a[2] \div g),
                 a[2] * (b[2] \div g))

RSub(a, b) ==
    IF IsInf(a) THEN Inf ELSE RAdd(a, <<-b[1], b[2]>>)

RMul(a, b) ==
    IF IsInf(a) \/ IsInf(b) THEN Inf
    ELSE Rat(a[1] * b[1], a[2] * b[2])

\* a / b on doubles, for a > 0: a positive number over zero is +infinity
RDiv(a, b) ==
    IF b[1] = 0 THEN Inf
    ELSE IF IsInf(a) THEN Inf
    ELSE RMul(a, Rat(b[2], b[1]))

\* std::numeric_limits<double>::max(): finite, and no value of the model
\* other than +infinity is as large
dmax == <<2147483647, 1>>

RECURSIVE FracLess(_, _, _, _)
\* n1/d1 < n2/d2 for d1, d2 > 0, by comparing the continued fractions (no
\* product is formed)
FracLess(n1, d1, n2, d2) ==
    LET q1 == n1 \div d1
        q2 == n2 \div d2
        r1 == n1 % d1
        r2 == n2 % d2
    IN  IF q1 # q2 THEN q1 < q2
        ELSE IF r2 = 0 THEN FALSE
        ELSE IF r1 = 0 THEN TRUE
        ELSE FracLess(d2, r2, d1, r1)

\* a < b on doubles
RLess(a, b) ==
    IF IsInf(a) THEN FALSE
    ELSE IF IsInf(b) THEN TRUE
    ELSE IF a = dmax THEN FALSE
    ELSE IF b = dmax THEN TRUE
    ELSE FracLess(a[1], a[2], b[1], b[2])

RGeq(a, b) == ~RLess(a, b)

(***************************************************************************)
(* Rounding.  A double holds MantissaBits significant bits; the result of  *)
(* an operation is the exact result rounded to the nearest such number,    *)
(* ties to even.  The rounding is modelled where a claim depends on it:    *)
(* the subtractions that write the third column of the IDT matrix.         *)
(***************************************************************************)
RECURSIVE Pow2(_)
Pow2(k) == IF k = 0 THEN 1 ELSE 2 * Pow2(k - 1)

RECURSIVE Scaled(_, _, _)
\* n/d = (n1/d1) * 2^e with 2^(MantissaBits-1) <= n1/d1 < 2^MantissaBits
Scaled(n, d, e) ==
    IF n >= d * Pow2(MantissaBits) THEN Scaled(n, 2 * d, e + 1)
    ELSE IF n < d * Pow2(MantissaBits - 1) THEN Scaled(2 * n, d, e - 1)
    ELSE [n |-> n, d |-> d, e |-> e]

\* n/d rounded to the nearest integer, ties to even
RoundHalfEven(n, d) ==
    LET q == n \div d
        r == n % d
    IN  IF 2 * r < d THEN q
        ELSE IF 2 * r > d THEN q + 1
        ELSE IF q % 2 = 0 THEN q ELSE q + 1

\* the double nearest to x
fl(x) ==
    IF IsInf(x) \/ x[1] = 0 THEN x
    ELSE LET s == Scaled(Abs(x[1]), x[2], 0)
             m == RoundHalfEven(s.n, s.d)
             sign == IF x[1] < 0 THEN -1 ELSE 1
         IN  IF s.e >= 0 THEN <<sign * m * Pow2(s.e), 1>>
             ELSE Rat(sign * m, Pow2(-s.e))

\* a - b on doubles
FSub(a, b) == fl(RSub(a, b))

(***************************************************************************)
(* Strings: tolower, atoi, std::to_string, strcasecmp.                     *)
(***************************************************************************)
UpperChars == <<"A","B","C","D","E","F","G","H","I","J","K","L","M",
                "N","O","P","Q","R","S","T","U","V","W","X","Y","Z">>
LowerChars == <<"a","b","c","d","e","f","g","h","i","j","k","l","m",
                "n","o","p","q","r","s","t","u","v","w","x","y","z">>
DigitChars == <<"0","1","2","3","4","5","6","7","8","9">>

\* std::tolower on one character
tolower(c) ==
    IF \E i \in 1..26 : UpperChars[i] = c
    THEN LowerChars[CHOOSE i \in 1..26 : UpperChars[i] = c]
    ELSE c

IsDigit(c) == \E i \in 1..10 : DigitChars[i] = c
DigitVal(c) == (CHOOSE i \in 1..10 : DigitChars[i] = c) - 1

RECURSIVE LowerStr(_)
LowerStr(s) == IF s = <<>> THEN <<>> ELSE <<tolower(Head(s))>> \o LowerStr(Tail(s))

\* strcasecmp( a, b ) == 0
cmp_str_equal(a, b) == LowerStr(a) = LowerStr(b)

RECURSIVE SkipSpaces(_)
SkipSpaces(s) ==
    IF s # <<>> /\ Head(s) = " " THEN SkipSpaces(Tail(s)) ELSE s

RECURSIVE AtoiDigits(_, _)
AtoiDigits(s, acc) ==
    IF s # <<>> /\ IsDigit(Head(s))
    THEN AtoiDigits(Tail(s), 10 * acc + DigitVal(Head(s)))
    ELSE acc

\* atoi: leading blanks, an optional sign, then the longest run of digits;
\* 0 when there are no digits
atoi(s) ==
    LET t == SkipSpaces(s)
    IN  IF t # <<>> /\ Head(t) = "-" THEN -AtoiDigits(Tail(t), 0)
        ELSE IF t # <<>> /\ Head(t) = "+" THEN AtoiDigits(Tail(t), 0)
        ELSE AtoiDigits(t, 0)

RECURSIVE NatToString(_)
NatToString(n) ==
    IF n < 10 THEN <<DigitChars[n + 1]>>
    ELSE NatToString(n \div 10) \o <<DigitChars[(n % 10) + 1]>>

\* std::to_string( int )
to_string(n) == IF n < 0 THEN <<"-">> \o NatToString(-n) ELSE NatToString(n)

(***************************************************************************)
(* Spectrum and SpectralData.  A SpectralData record keeps the header      *)
(* strings and the channels of its "main" set in order (camera: R, G, B;   *)
(* illuminant: power; observer: X, Y, Z; training: one per patch).  A      *)
(* record without a "main" set has no channels.                            *)
(***************************************************************************)
\* wavelength step of the sampling grid (for ( wav = 380; ...; wav += 5 ))
step == 5

RECURSIVE SumSeq(_)
SumSeq(s) == IF s = <<>> THEN Zero ELSE RAdd(Head(s), SumSeq(Tail(s)))

\* Spectrum::integrate(): the sum of the samples times the step
integrate(s) == RMul(SumSeq(s), <<step, 1>>)

RECURSIVE SpecMul(_, _)
\* Spectrum * Spectrum, pointwise
SpecMul(a, b) ==
    IF a = <<>> THEN <<>>
    ELSE <<RMul(Head(a), Head(b))>> \o SpecMul(Tail(a), Tail(b))

RECURSIVE SpecScale(_, _)
\* Spectrum *= scalar
SpecScale(a, k) ==
    IF a = <<>> THEN <<>>
    ELSE <<RMul(Head(a), k)>> \o SpecScale(Tail(a), k)

RECURSIVE SpecMax(_)
\* Spectrum::max(): the largest sample
SpecMax(s) ==
    IF Len(s) = 1 THEN s[1]
    ELSE LET m == SpecMax(Tail(s))
         IN  IF RLess(Head(s), m) THEN m ELSE Head(s)

\* a default-constructed SpectralData
EmptyData ==
    [manufacturer |-> <<>>, model |-> <<>>, illuminant |-> <<>>, main |-> <<>>]

\* data.count( "main" ) == 0 || data.at( "main" ).size() != n
Unset(data, n) == Len(data.main) # n

RECURSIVE Samples(_)
\* integer samples as a Spectrum
Samples(ints) ==
    IF ints = <<>> THEN <<>>
    ELSE <<<<Head(ints), 1>>>> \o Samples(Tail(ints))

(***************************************************************************)
(* Illuminant generators.  The radiometric formulas (CIE D-series          *)
(* reconstruction, Planck's law) are replaced by a two-band stand-in       *)
(* <<short-wave power, long-wave power>> that keeps what the solver's      *)
(* control flow depends on: the accepted CCT ranges, the conversion of the *)
(* legacy 40..250 form to Kelvin, positive samples, and different spectra  *)
(* for the different CCTs of the candidate grid.                           *)
(***************************************************************************)
\* the long-wave sample of the stand-in SPD
BandRef == 20

\* calculate_daylight_SPD does not call exit( 1 )
DaylightInRange(cct) ==
    (cct >= 40 /\ cct <= 250) \/ (cct >= 4000 /\ cct <= 25000)

\* cctd of calculate_daylight_SPD, in whole Kelvin
DaylightCCTd(cct) ==
    IF cct >= 40 /\ cct <= 250 THEN (cct * 100 * 14388) \div 14380
    ELSE cct

calculate_daylight_SPD(cct) ==
    Samples(<<DaylightCCTd(cct) \div 500, BandRef>>)

\* calculate_blackbody_SPD does not call exit( 1 )
BlackbodyInRange(cct) == ~(cct < 1500 \/ cct >= 4000)

calculate_blackbody_SPD(cct) ==
    Samples(<<cct \div 500, BandRef>>)

\* the generator the call reaches accepts the CCT
GeneratorInRange(cct, is_daylight) ==
    IF is_daylight THEN DaylightInRange(cct) ELSE BlackbodyInRange(cct)

\* generate_illuminant, when the generator returns: the record illum after
\* the call (its data is cleared and refilled, its tag is set)
generate_illuminant(cct, type, is_daylight, illum) ==
    [illum EXCEPT !.illuminant = type,
                  !.main = << IF is_daylight THEN calculate_daylight_SPD(cct)
                              ELSE calculate_blackbody_SPD(cct) >>]

(***************************************************************************)
(* The database the search directories lead to.  A file is a record        *)
(* [ok, data]: ok says whether SpectralData::load succeeds on it.          *)
(***************************************************************************)
CameraNikon ==
    [ok |-> TRUE,
     data |-> [manufacturer |-> <<"n","k">>, model |-> <<"d","2">>,
               illuminant |-> <<>>,
               main |-> <<Samples(<<0, 2>>), Samples(<<1, 1>>), Samples(<<2, 0>>)>>]]

CameraCanon ==
    [ok |-> TRUE,
     data |-> [manufacturer |-> <<"C","n">>, model |-> <<"5","D">>,
               illuminant |-> <<>>,
               main |-> <<Samples(<<0, 1>>), Samples(<<2, 1>>), Samples(<<1, 0>>)>>]]

\* a measured illuminant with the same relative SPD as the generated 5500 K
IllumIso ==
    [ok |-> TRUE,
     data |-> [manufacturer |-> <<>>, model |-> <<>>,
               illuminant |-> <<"i","s","o">>,
               main |-> <<SpecScale(calculate_daylight_SPD(5500), <<2, 1>>)>>]]

\* a file that does not parse
IllumCorrupt ==
    [ok |-> FALSE, data |-> EmptyData]

\* a measured illuminant whose tag starts with the letter d
IllumDx ==
    [ok |-> TRUE,
     data |-> [manufacturer |-> <<>>, model |-> <<>>,
               illuminant |-> <<"d","x">>,
               main |-> <<Samples(<<5, 9>>)>>]]

\* a measured illuminant whose tag ends with the letter k
IllumXk ==
    [ok |-> TRUE,
     data |-> [manufacturer |-> <<>>, model |-> <<>>,
               illuminant |-> <<"x","k">>,
               main |-> <<Samples(<<9, 5>>)>>]]

ObserverFile ==
    [ok |-> TRUE,
     data |-> [manufacturer |-> <<>>, model |-> <<>>, illuminant |-> <<>>,
               main |-> <<Samples(<<1, 2>>), Samples(<<1, 1>>), Samples(<<2, 0>>)>>]]

TrainingFile ==
    [ok |-> TRUE,
     data |-> [manufacturer |-> <<>>, model |-> <<>>, illuminant |-> <<>>,
               main |-> <<Samples(<<1, 1>>), Samples(<<1, 2>>)>>]]

\* no search directory
DatabaseEmpty ==
    [camera |-> <<>>, illuminant |-> <<>>, cmf |-> <<>>, training |-> <<>>]

DatabaseFull ==
    [camera |-> <<CameraNikon, CameraCanon>>,
     illuminant |-> <<IllumIso, IllumCorrupt, IllumDx, IllumXk>>,
     cmf |-> <<ObserverFile>>, training |-> <<TrainingFile>>]

Databases == {DatabaseEmpty, DatabaseFull}

\* SpectralSolver::collect_data_files( type ): the files of one type
collect_data_files(database, type) ==
    IF type = "camera" THEN database.camera ELSE database.illuminant

\* SpectralData::load( path ): the record after the call and the result
load(record, file) ==
    IF file.ok THEN [data |-> file.data, ret |-> TRUE]
    ELSE [data |-> record, ret |-> FALSE]

(***************************************************************************)
(* Helpers of the solver.                                                  *)
(***************************************************************************)
\* the 3x3 identity (neutral3)
neutral3 == <<<<One, Zero, Zero>>, <<Zero, One, Zero>>, <<Zero, Zero, One>>>>

\* scaleLSC: the illuminant record after the call.  Channel 1, 2, 3 of the
\* camera are R, G, B.
scaleLSC(cam, illum) ==
    LET max_R == SpecMax(cam.main[1])
        max_G == SpecMax(cam.main[2])
        max_B == SpecMax(cam.main[3])
        max_channel ==
            IF RGeq(max_R, max_G) /\ RGeq(max_R, max_B) THEN 1
            ELSE IF RGeq(max_G, max_R) /\ RGeq(max_G, max_B) THEN 2
            ELSE 3
        scale == RDiv(One, integrate(SpecMul(cam.main[max_channel], illum.main[1])))
    IN  [illum EXCEPT !.main = <<SpecScale(illum.main[1], scale)>>]

\* calWB without the call of scaleLSC
calWBUnscaled(cam, illum) ==
    LET r == integrate(SpecMul(cam.main[1], illum.main[1]))
        g == integrate(SpecMul(cam.main[2], illum.main[1]))
        b == integrate(SpecMul(cam.main[3], illum.main[1]))
    IN  [wb |-> <<RDiv(g, r), One, RDiv(g, b)>>, illuminant |-> illum]

\* calWB normalising to the red channel instead of the green one
calWBNormalisedToRed(cam, illum) ==
    LET scaled == scaleLSC(cam, illum)
        r == integrate(SpecMul(cam.main[1], scaled.main[1]))
        g == integrate(SpecMul(cam.main[2], scaled.main[1]))
        b == integrate(SpecMul(cam.main[3], scaled.main[1]))
    IN  [wb |-> <<One, RDiv(r, g), RDiv(r, b)>>, illuminant |-> scaled]

\* calWB: the multipliers returned and the illuminant record after the call
\* (calWB takes the illuminant by non-const reference and scales it)
calWB(cam, illum) ==
    LET scaled == scaleLSC(cam, illum)
        r == integrate(SpecMul(cam.main[1], scaled.main[1]))
        g == integrate(SpecMul(cam.main[2], scaled.main[1]))
        b == integrate(SpecMul(cam.main[3], scaled.main[1]))
    IN  [wb |-> <<RDiv(g, r), One, RDiv(g, b)>>, illuminant |-> scaled]

\* one term of calculate_SSE: ( tcp / src - 1 )^2
SSETerm(t, s) ==
    LET e == RSub(RDiv(t, s), One) IN RMul(e, e)

RECURSIVE SSESum(_, _, _)
SSESum(tcp, src, i) ==
    IF i > Len(tcp) THEN Zero
    ELSE RAdd(SSETerm(tcp[i], src[i]), SSESum(tcp, src, i + 1))

\* calculate_SSE( tcp, src )
calculate_SSE(tcp, src) == SSESum(tcp, src, 1)

(***************************************************************************)
(* MetadataSolver.  A vector<double> holding a 3x3 matrix is a sequence of *)
(* nine numbers, row by row.  The colour constants (CAT02, the ACES white  *)
(* point, XYZ_D65_acesrgb_3) are replaced by matrices of small rationals   *)
(* close to them; the arithmetic on them is the code's.                    *)
(***************************************************************************)
\* the index range of a flat 3x3 matrix, and k of mulVector
Dim == 3

\* std::pow( 2.0, e ) for a whole e
RECURSIVE Pow2Rat(_)
Pow2Rat(e) ==
    IF e = 0 THEN One
    ELSE IF e > 0 THEN RMul(<<2, 1>>, Pow2Rat(e - 1))
    ELSE RMul(<<1, 2>>, Pow2Rat(e + 1))

RECURSIVE sumVector(_)
sumVector(vct) ==
    IF vct = <<>> THEN Zero ELSE RAdd(Head(vct), sumVector(Tail(vct)))

scaleVector(vct, scale) == [i \in 1..Len(vct) |-> RMul(vct[i], scale)]

\* mulVector( vct1, vct2, 3 ) on flat matrices: ( rows x 3 ) times ( 3 x cols )
mulVector(vct1, vct2) ==
    LET cols == Len(vct2) \div Dim
        rows == Len(vct1) \div Dim
    IN  [n \in 1..(rows * cols) |->
            LET r == (n - 1) \div cols
                c == (n - 1) % cols
            IN  sumVector([k \in 1..Dim |->
                    RMul(vct1[r * Dim + k], vct2[(k - 1) * cols + c + 1])])]

\* the determinant of a flat 3x3 matrix
Det3(m) ==
    RAdd(RSub(RMul(m[1], RSub(RMul(m[5], m[9]), RMul(m[6], m[8]))),
              RMul(m[2], RSub(RMul(m[4], m[9]), RMul(m[6], m[7])))),
         RMul(m[3], RSub(RMul(m[4], m[8]), RMul(m[5], m[7]))))

\* invertV on a flat 3x3 matrix with a determinant other than zero
invertV(m) ==
    LET d == Det3(m)
        cof == << RSub(RMul(m[5], m[9]), RMul(m[6], m[8])),
                  RSub(RMul(m[3], m[8]), RMul(m[2], m[9])),
                  RSub(RMul(m[2], m[6]), RMul(m[3], m[5])),
                  RSub(RMul(m[6], m[7]), RMul(m[4], m[9])),
                  RSub(RMul(m[1], m[9]), RMul(m[3], m[7])),
                  RSub(RMul(m[3], m[4]), RMul(m[1], m[6])),
                  RSub(RMul(m[4], m[8]), RMul(m[5], m[7])),
                  RSub(RMul(m[2], m[7]), RMul(m[1], m[8])),
                  RSub(RMul(m[1], m[5]), RMul(m[2], m[4])) >>
    IN  [i \in 1..9 |-> RDiv(cof[i], d)]

\* a flat 3x3 matrix as rows, and back
Rows(m) == [i \in 1..Dim |-> [j \in 1..Dim |-> m[(i - 1) * Dim + j]]]
Flat(mm) == [n \in 1..(Dim * Dim) |-> mm[((n - 1) \div Dim) + 1][((n - 1) % Dim) + 1]]

\* CAT02 and CAT02_inv (stand-in: an exact inverse pair)
CAT02 == << <<1, 2>>, <<1, 2>>, Zero,  <<-1, 2>>, <<3, 2>>, Zero,  Zero, Zero, One >>
CAT02_inv == << <<3, 2>>, <<-1, 2>>, Zero,  <<1, 2>>, <<1, 2>>, Zero,  Zero, Zero, One >>

\* XYZ_D65_acesrgb_3 (stand-in)
XYZ_D65_acesrgb_3 == << One, Zero, Zero,  <<-1, 2>>, <<3, 2>>, Zero,  Zero, Zero, One >>

\* mulVector( matrixRGBtoXYZ( chromaticitiesACES ), deviceWhiteV ): the ACES
\* white point (stand-in)
outputXYZWhitePoint == << <<19, 20>>, One, One >>

\* the diagonal matrix of a vector, flat
Diag3(v) == << v[1], Zero, Zero,  Zero, v[2], Zero,  Zero, Zero, v[3] >>

\* calculate_CAT: CAT02_inv * diag( dst_LMS / src_LMS ) * CAT02
calculate_CAT(src_white_XYZ, dst_white_XYZ) ==
    LET src_white_LMS == mulVector(CAT02, src_white_XYZ)
        dst_white_LMS == mulVector(CAT02, dst_white_XYZ)
        mat == Diag3([i \in 1..Dim |-> RDiv(dst_white_LMS[i], src_white_LMS[i])])
    IN  Rows(mulVector(CAT02_inv, mulVector(mat, CAT02)))

\* LightSourceEXIFTagValues: the pairs { tag, Kelvin }
LightSourceEXIFTagValues ==
    << <<0, 5500>>, <<1, 5500>>, <<2, 3500>>, <<3, 3400>>, <<10, 5550>>,
       <<17, 2856>>, <<18, 4874>>, <<19, 6774>>, <<20, 5500>>, <<21, 6500>>,
       <<22, 7500>> >>

RECURSIVE TagLookup(_, _)
\* the loop of lightSourceToColorTemp over the table, from entry i on
TagLookup(tag, i) ==
    IF i > Len(LightSourceEXIFTagValues) THEN 5500
    ELSE IF LightSourceEXIFTagValues[i][1] = tag
    THEN LightSourceEXIFTagValues[i][2]
    ELSE TagLookup(tag, i + 1)

\* lightSourceToColorTemp with the comparison tag >= 32768 lost, as for a
\* signed 16-bit tag
lightSourceToColorTempSigned(tag) == TagLookup(tag % 65536, 1)

\* lightSourceToColorTemp( const unsigned short tag )
lightSourceToColorTemp(tag) ==
    LET t == tag % 65536
    IN  IF t >= 32768 THEN t - 32768 ELSE TagLookup(t, 1)

\* the weight XYZtoCameraWeightedMatrix gets from the mired that the search
\* loop of findXYZtoCameraMtx estimates (stand-in for the Robertson CCT
\* estimate of the neutral: a reddish neutral is the first calibration, a
\* bluish one the second)
EstimatedWeight(md) ==
    IF lightSourceToColorTemp(md.calibration[1].illuminant)
           = lightSourceToColorTemp(md.calibration[2].illuminant)
    THEN One
    ELSE IF RLess(md.neutral_RGB[3], md.neutral_RGB[1]) THEN Zero
    ELSE IF md.neutral_RGB[3] = md.neutral_RGB[1] THEN <<1, 2>>
    ELSE One

\* XYZtoCameraWeightedMatrix: matrix1 + weight * ( matrix2 - matrix1 )
XYZtoCameraWeightedMatrix(weight, matrix1, matrix2) ==
    [i \in 1..Len(matrix1) |->
        RAdd(RMul(RSub(matrix2[i], matrix1[i]), weight), matrix1[i])]

findXYZtoCameraMtx(md) ==
    IF md.calibration[1].illuminant = 0
    THEN md.calibration[1].XYZ_to_RGB_matrix
    ELSE XYZtoCameraWeightedMatrix(EstimatedWeight(md),
             md.calibration[1].XYZ_to_RGB_matrix,
             md.calibration[2].XYZ_to_RGB_matrix)

\* std::fabs( x - 0.0 ) > 1e-09
AboveTolerance(x) == RLess(<<1, 1000000000>>, <<Abs(x[1]), x[2]>>)

\* sumVectorM: the sum of the entries of a matrix of rows
sumVectorM(mm) == sumVector(Flat(mm))

\* getCameraXYZMtxAndWhitePoint leaving the white point as the scaled
\* matrix gives it (not normalised to Y = 1)
getCameraXYZMtxAndWhitePointUnnormalised(md) ==
    LET inverse == invertV(findXYZtoCameraMtx(md))
        scaled == scaleVector(inverse, Pow2Rat(md.baseline_exposure))
        white == mulVector(scaled, md.neutral_RGB)
    IN  [asserts |-> AboveTolerance(sumVector(inverse))
                         /\ sumVector(white) # Zero,
         camera_to_XYZ_matrix |-> scaled,
         camera_XYZ_white_point |-> white]

\* getCameraXYZMtxAndWhitePoint: the two outputs, and whether its two
\* asserts hold (on the sum of the inverted matrix, before it is scaled, and
\* on the sum of the normalised white point)
getCameraXYZMtxAndWhitePoint(md) ==
    LET inverse == invertV(findXYZtoCameraMtx(md))
        scaled == scaleVector(inverse, Pow2Rat(md.baseline_exposure))
        white == mulVector(scaled, md.neutral_RGB)
        normalised == scaleVector(white, RDiv(One, white[2]))
    IN  [asserts |-> AboveTolerance(sumVector(inverse))
                         /\ sumVector(normalised) # Zero,
         camera_to_XYZ_matrix |-> scaled,
         camera_XYZ_white_point |-> normalised]

\* MetadataSolver::calculate_CAT_matrix: the matrix returned when no assert
\* stops the call
MetadataSolver_calculate_CAT_matrix(md) ==
    calculate_CAT(getCameraXYZMtxAndWhitePoint(md).camera_XYZ_white_point,
                  outputXYZWhitePoint)

\* MetadataSolver::calculate_IDT_matrix: the matrix returned when no assert
\* stops the call
MetadataSolver_calculate_IDT_matrix(md) ==
    Rows(mulVector(XYZ_D65_acesrgb_3,
                   Flat(MetadataSolver_calculate_CAT_matrix(md))))

\* the asserts a call of calculate_CAT_matrix passes hold
CATAsserts(md) == getCameraXYZMtxAndWhitePoint(md).asserts

\* the asserts a call of calculate_IDT_matrix passes hold
IDTAsserts(md) ==
    /\ CATAsserts(md)
    /\ AboveTolerance(sumVectorM(MetadataSolver_calculate_IDT_matrix(md)))

(***************************************************************************)
(* State.                                                                  *)
(***************************************************************************)
VARIABLES
    db,               \* what _search_directories leads to
    camera,           \* SpectralSolver::camera
    illuminant,       \* SpectralSolver::illuminant
    observer,         \* SpectralSolver::observer
    training_data,    \* SpectralSolver::training_data
    all_illuminants,  \* SpectralSolver::_all_illuminants
    WB_multipliers,   \* SpectralSolver::_WB_multipliers
    IDT_matrix,       \* SpectralSolver::_IDT_matrix
    fit_memo,         \* the last fit: its inputs and what the library answered
    aborted,          \* the process has been terminated (exit or fault)
    op,               \* the last public call: its name, argument and result
    calls,            \* number of public calls made
    build,            \* "debug" (asserts compiled in) or "release" (NDEBUG)
    metadata,         \* MetadataSolver::_metadata
    meta_op,          \* the last call on the MetadataSolver and what it returned
    converter,        \* the ImageConverter: settings and configured transform
    conv_op,          \* the last call on the ImageConverter and its result
    peer,             \* a second SpectralSolver of the same process
    disk,             \* the output files: what each holds ( "absent": none )
    program,          \* the rawtoaces program ( main ): its arguments and progress
    core_op           \* the last call of a free function of the core library

\* the SpectralSolver and the process it runs in
solver_vars == <<db, camera, illuminant, observer, training_data,
                 all_illuminants, WB_multipliers, IDT_matrix, fit_memo,
                 aborted, op, calls>>

\* the objects around the SpectralSolver
outer_vars == <<build, metadata, meta_op, converter, conv_op, peer, disk,
                program, core_op>>

vars == <<solver_vars, outer_vars>>

\* the spectral data members
data_vars == <<camera, illuminant, observer, training_data>>

NoOp == [name |-> "construct", arg |-> <<>>, ret |-> "none"]

\* SpectralSolver::SpectralSolver
SolverInit ==
    /\ db \in Databases
    /\ camera = EmptyData
    /\ illuminant = EmptyData
    /\ observer = EmptyData
    /\ training_data = EmptyData
    /\ all_illuminants = <<>>
    /\ WB_multipliers = <<One, One, One>>
    /\ IDT_matrix = neutral3
    /\ fit_memo = <<>>
    /\ aborted = FALSE
    /\ op = NoOp
    /\ calls = 0

\* no MetadataSolver and no ImageConverter has been made
OuterIdle ==
    /\ build = "release"
    /\ core_op = NoOp
    /\ metadata = <<>>
    /\ meta_op = NoOp
    /\ converter = <<>>
    /\ conv_op = NoOp
    /\ peer = <<>>
    /\ disk = <<>>
    /\ program = <<>>

Init == SolverInit /\ OuterIdle

\* a public call can be made
CanCall == ~aborted /\ calls < MaxCalls

Bool(b) == IF b THEN "true" ELSE "false"

Returned(name, arg, ret) == [name |-> name, arg |-> arg, ret |-> ret]

(***************************************************************************)
(* find_camera                                                             *)
(***************************************************************************)
RECURSIVE FindCameraScan(_, _, _, _)
\* the loop over camera_files: the camera record and the result
FindCameraScan(files, cam, make, model) ==
    IF files = <<>> THEN [camera |-> cam, ret |-> FALSE]
    ELSE LET loaded == load(cam, Head(files)).data
         IN  IF ~cmp_str_equal(loaded.manufacturer, make)
             THEN FindCameraScan(Tail(files), loaded, make, model)
             ELSE IF ~cmp_str_equal(loaded.model, model)
             THEN FindCameraScan(Tail(files), loaded, make, model)
             ELSE [camera |-> loaded, ret |-> TRUE]

find_camera(make, model) ==
    /\ CanCall
    /\ UNCHANGED outer_vars
    /\ LET r == FindCameraScan(collect_data_files(db, "camera"), camera, make, model)
       IN  /\ camera' = r.camera
           /\ op' = Returned("find_camera", <<make, model>>, Bool(r.ret))
    /\ calls' = calls + 1
    /\ UNCHANGED <<db, illuminant, observer, training_data, all_illuminants,
                   WB_multipliers, IDT_matrix, fit_memo, aborted>>

(***************************************************************************)
(* find_illuminant( type )                                                 *)
(***************************************************************************)
\* type.substr( 1 )
DropFirst(s) == Tail(s)
\* type.substr( 0, type.length() - 1 )
DropLast(s) == SubSeq(s, 1, Len(s) - 1)

\* the branch find_illuminant( type ) takes
NameBranch(type) ==
    IF tolower(Head(type)) = "d" THEN "daylight"
    ELSE IF tolower(type[Len(type)]) = "k" THEN "blackbody"
    ELSE "database"

\* the CCT handed to the generator
NameCCT(type) ==
    IF NameBranch(type) = "daylight" THEN atoi(DropFirst(type))
    ELSE atoi(DropLast(type))

RECURSIVE FindIlluminantScan(_, _, _)
\* the loop over illuminant_files: the illuminant record and the result
FindIlluminantScan(files, illum, type) ==
    IF files = <<>> THEN [illuminant |-> illum, ret |-> FALSE]
    ELSE LET l == load(illum, Head(files))
         IN  IF ~l.ret THEN FindIlluminantScan(Tail(files), l.data, type)
             ELSE IF ~cmp_str_equal(l.data.illuminant, type)
             THEN FindIlluminantScan(Tail(files), l.data, type)
             ELSE [illuminant |-> l.data, ret |-> TRUE]

find_illuminant_type(type) ==
    /\ CanCall
    /\ UNCHANGED outer_vars
    /\ calls' = calls + 1
    /\ LET branch == NameBranch(type)
           cct == NameCCT(type)
       IN  IF branch = "daylight" \/ branch = "blackbody"
           THEN LET is_daylight == (branch = "daylight")
                    tag == IF is_daylight THEN <<"d">> \o to_string(cct)
                           ELSE to_string(cct) \o <<"k">>
                IN  IF GeneratorInRange(cct, is_daylight)
                    THEN /\ illuminant' = generate_illuminant(cct, tag, is_daylight, illuminant)
                         /\ op' = Returned("find_illuminant_type", type, "true")
                         /\ UNCHANGED aborted
                    ELSE \* the generator prints and calls exit( 1 )
                         /\ aborted' = TRUE
                         /\ op' = Returned("find_illuminant_type", type, "exit")
                         /\ UNCHANGED illuminant
           ELSE LET r == FindIlluminantScan(collect_data_files(db, "illuminant"),
                                            illuminant, type)
                IN  /\ illuminant' = r.illuminant
                    /\ op' = Returned("find_illuminant_type", type, Bool(r.ret))
                    /\ UNCHANGED aborted
    /\ UNCHANGED <<db, camera, observer, training_data, all_illuminants,
                   WB_multipliers, IDT_matrix, fit_memo>>

(***************************************************************************)
(* find_illuminant( wb )                                                   *)
(***************************************************************************)
RECURSIVE DaylightCandidates(_)
\* for ( int i = 4000; i <= 25000; i += 500 )
DaylightCandidates(i) ==
    IF i <= 25000
    THEN <<generate_illuminant(i, <<"d">> \o to_string(i \div 100), TRUE,
                               EmptyData)>>
         \o DaylightCandidates(i + 500)
    ELSE <<>>

RECURSIVE BlackbodyCandidatesThrough4000(_)
\* the blackbody loop with the bound written i <= 4000
BlackbodyCandidatesThrough4000(i) ==
    IF i <= 4000
    THEN <<generate_illuminant(i, to_string(i) \o <<"k">>, FALSE, EmptyData)>>
         \o BlackbodyCandidatesThrough4000(i + 500)
    ELSE <<>>

RECURSIVE BlackbodyCandidates(_)
\* for ( int i = 1500; i < 4000; i += 500 )
BlackbodyCandidates(i) ==
    IF i < 4000
    THEN <<generate_illuminant(i, to_string(i) \o <<"k">>, FALSE, EmptyData)>>
         \o BlackbodyCandidates(i + 500)
    ELSE <<>>

RECURSIVE FileCandidates(_)
\* every illuminant file is loaded into a new element, which is popped again
\* when the load fails
FileCandidates(files) ==
    IF files = <<>> THEN <<>>
    ELSE LET l == load(EmptyData, Head(files))
         IN  (IF l.ret THEN <<l.data>> ELSE <<>>) \o FileCandidates(Tail(files))

\* the list built when _all_illuminants is empty
BuildAllIlluminants(d) ==
    DaylightCandidates(4000) \o BlackbodyCandidates(1500)
        \o FileCandidates(collect_data_files(d, "illuminant"))

(***************************************************************************)
(* Inputs of the calls.                                                    *)
(***************************************************************************)
\* camera makes and models asked for: two in the database (in another
\* letter case), one absent
CameraQueries ==
    { << <<"N","K">>, <<"D","2">> >>, << <<"z">>, <<"D","2">> >> }

\* illuminant names: built-in forms, database tags, an absent tag, names
\* that only start with d or end with k, and CCTs outside the ranges
CoreNames ==
    { <<"d","5","5">>, <<"i","s","o">>, <<"z">>, <<"d","x">>, <<"x","k">>,
      <<"4","0","0","0","K">> }

\* white-balance vectors asked for: cam_mul values, zero when the metadata
\* has none
CoreWB ==
    { <<<<3, 2>>, One, <<2, 1>>>>, <<Zero, Zero, Zero>> }

\* the comparison written sse_tmp <= sse
ImprovesOrTies(sse_tmp, sse) == ~RLess(sse, sse_tmp)

\* if ( sse_tmp < sse )
Improves(sse_tmp, sse) == RLess(sse_tmp, sse)

RECURSIVE BestMatch(_, _, _, _, _)
\* the loop over _all_illuminants from element i on: sse is the smallest
\* error so far and best the element that gave it (0: none yet)
BestMatch(scaled, wb, i, sse, best) ==
    IF i > Len(scaled) THEN best
    ELSE LET sse_tmp == calculate_SSE(scaled[i].wb, wb)
         IN  IF Improves(sse_tmp, sse)
             THEN BestMatch(scaled, wb, i + 1, sse_tmp, i)
             ELSE BestMatch(scaled, wb, i + 1, sse, best)

\* the search of find_illuminant( wb ) over the list cands.  scaled[i] is
\* what calWB returns for element i and the element as calWB leaves it
\* (scaled in place).  The result: the solver's illuminant and
\* _WB_multipliers after the loop, and the list after it.
SearchAllIlluminants(cands, cam, wb, illum, mult) ==
    LET scaled == [i \in 1..Len(cands) |-> calWB(cam, cands[i])]
        best == BestMatch(scaled, wb, 1, dmax, 0)
    IN  [illuminant |-> IF best = 0 THEN illum ELSE scaled[best].illuminant,
         wb |-> IF best = 0 THEN mult ELSE scaled[best].wb,
         cands |-> [i \in 1..Len(cands) |-> scaled[i].illuminant]]

find_illuminant_wb(wb) ==
    /\ CanCall
    /\ UNCHANGED outer_vars
    /\ calls' = calls + 1
    /\ IF Unset(camera, 3)
       THEN /\ op' = Returned("find_illuminant_wb", wb, "false")
            /\ UNCHANGED <<illuminant, all_illuminants, WB_multipliers>>
       ELSE \E r \in {SearchAllIlluminants(
                        IF all_illuminants = <<>> THEN BuildAllIlluminants(db)
                        ELSE all_illuminants,
                        camera, wb, illuminant, WB_multipliers)} :
                /\ illuminant' = r.illuminant
                /\ WB_multipliers' = r.wb
                /\ all_illuminants' = r.cands
                /\ op' = Returned("find_illuminant_wb", wb, "true")
    /\ UNCHANGED <<db, camera, observer, training_data, IDT_matrix, fit_memo,
                   aborted>>

(***************************************************************************)
(* calculate_WB                                                            *)
(***************************************************************************)
calculate_WB ==
    /\ CanCall
    /\ UNCHANGED outer_vars
    /\ calls' = calls + 1
    /\ IF Unset(illuminant, 1)
       THEN \* (an unset camera is reported, but only this test returns)
            /\ op' = Returned("calculate_WB", <<>>, "false")
            /\ UNCHANGED <<illuminant, WB_multipliers, aborted>>
       ELSE IF Unset(camera, 3)
       THEN \* the error is printed and calWB runs: camera["R"] has no
            \* channel to return
            /\ aborted' = TRUE
            /\ op' = Returned("calculate_WB", <<>>, "fault")
            /\ UNCHANGED <<illuminant, WB_multipliers>>
       ELSE LET w == calWB(camera, illuminant)
            IN  /\ WB_multipliers' = w.wb
                /\ illuminant' = w.illuminant
                /\ op' = Returned("calculate_WB", <<>>, "true")
                /\ UNCHANGED aborted
    /\ UNCHANGED <<db, camera, observer, training_data, all_illuminants,
                   IDT_matrix, fit_memo>>

(***************************************************************************)
(* calculate_IDT_matrix                                                    *)
(***************************************************************************)
\* double BStart[6]
BStart == <<One, Zero, Zero, One, Zero, Zero>>

\* what ceres::Solve can leave behind: the number of successful steps and B
FitOutcomes ==
    { [steps |-> 0, B |-> BStart],
      [steps |-> 4, B |-> <<<<13, 128>>, <<1, 4>>, Zero, One, Zero, Zero>>] }

\* the matrix with the third column written as 1.0 - B[0], 1.0 - B[2],
\* 1.0 - B[4]
MatrixFromFirstEntries(B) ==
    << <<B[1], B[2], FSub(One, B[1])>>,
       <<B[3], B[4], FSub(One, B[3])>>,
       <<B[5], B[6], FSub(One, B[5])>> >>

\* the matrix curveFit writes from B
MatrixFromB(B) ==
    << <<B[1], B[2], FSub(FSub(One, B[1]), B[2])>>,
       <<B[3], B[4], FSub(FSub(One, B[3]), B[4])>>,
       <<B[5], B[6], FSub(FSub(One, B[5]), B[6])>> >>

\* curveFit clearing the matrix when the solve made no successful step
curveFitClearing(outcome, out_IDT_matrix) ==
    IF outcome.steps # 0
    THEN [IDT |-> MatrixFromB(outcome.B), ret |-> TRUE]
    ELSE [IDT |-> <<<<Zero, Zero, Zero>>, <<Zero, Zero, Zero>>,
                    <<Zero, Zero, Zero>>>>, ret |-> FALSE]

\* curveFit: the matrix after the call and the result
curveFit(outcome, out_IDT_matrix) ==
    IF outcome.steps # 0
    THEN [IDT |-> MatrixFromB(outcome.B), ret |-> TRUE]
    ELSE [IDT |-> out_IDT_matrix, ret |-> FALSE]

\* what the fit depends on: calTI, calRGB and calXYZ read these
FitInputs == <<camera, illuminant, observer, training_data, WB_multipliers>>

\* the library is deterministic: the same inputs give the same outcome
FitAllowed(outcome) ==
    (fit_memo # <<>> /\ fit_memo[1] = FitInputs) => fit_memo[2] = outcome

calculate_IDT_matrix(outcome) ==
    /\ CanCall
    /\ UNCHANGED outer_vars
    /\ calls' = calls + 1
    /\ IF \/ Unset(camera, 3)
          \/ Unset(illuminant, 1)
          \/ Unset(observer, 3)
          \/ training_data.main = <<>>
       THEN /\ outcome = [steps |-> 0, B |-> BStart]
            /\ op' = Returned("calculate_IDT_matrix", <<>>, "false")
            /\ UNCHANGED <<IDT_matrix, fit_memo>>
       ELSE /\ FitAllowed(outcome)
            /\ LET r == curveFit(outcome, IDT_matrix)
               IN  /\ IDT_matrix' = r.IDT
                   /\ op' = Returned("calculate_IDT_matrix", <<>>, Bool(r.ret))
            /\ fit_memo' = <<FitInputs, outcome>>
    /\ UNCHANGED <<db, camera, illuminant, observer, training_data,
                   all_illuminants, WB_multipliers, aborted>>

(***************************************************************************)
(* load_spectral_data( path, solver.observer / solver.training_data )      *)
(***************************************************************************)
\* load_spectral_data for a relative path: the first directory that has the
\* file decides
load_spectral_data(files, out_data) ==
    IF files = <<>> THEN [data |-> out_data, ret |-> FALSE]
    ELSE load(out_data, Head(files))

load_observer ==
    /\ CanCall
    /\ UNCHANGED outer_vars
    /\ calls' = calls + 1
    /\ LET r == load_spectral_data(db.cmf, observer)
       IN  /\ observer' = r.data
           /\ op' = Returned("load_observer", <<>>, Bool(r.ret))
    /\ UNCHANGED <<db, camera, illuminant, training_data, all_illuminants,
                   WB_multipliers, IDT_matrix, fit_memo, aborted>>

load_training ==
    /\ CanCall
    /\ UNCHANGED outer_vars
    /\ calls' = calls + 1
    /\ LET r == load_spectral_data(db.training, training_data)
       IN  /\ training_data' = r.data
           /\ op' = Returned("load_training", <<>>, Bool(r.ret))
    /\ UNCHANGED <<db, camera, illuminant, observer, all_illuminants,
                   WB_multipliers, IDT_matrix, fit_memo, aborted>>

Next ==
    \/ \E q \in CameraQueries : find_camera(q[1], q[2])
    \/ \E type \in CoreNames : find_illuminant_type(type)
    \/ \E wb \in CoreWB : find_illuminant_wb(wb)
    \/ calculate_WB
    \/ \E outcome \in FitOutcomes : calculate_IDT_matrix(outcome)
    \/ load_observer
    \/ load_training

Spec == Init /\ [][Next]_vars

(***************************************************************************)
(* The search specification: find_illuminant( wb ) is asked for the        *)
(* multipliers that the solver's camera gives for an illuminant of the     *)
(* candidate list (what calculate_WB returns for a known illuminant).      *)
(***************************************************************************)
\* the multipliers of the elements of the candidate list under the solver's
\* camera
KnownWBs ==
    LET list == BuildAllIlluminants(db)
    IN  {calWB(camera, list[k]).wb : k \in 1..Len(list)}

NextWB ==
    /\ calls < MaxWBCalls
    /\ \/ \E q \in CameraQueries : find_camera(q[1], q[2])
       \/ /\ ~Unset(camera, 3)
          /\ \E wb \in KnownWBs : find_illuminant_wb(wb)

SpecWB == Init /\ [][NextWB]_vars

(***************************************************************************)
(* The metadata specification: a MetadataSolver is constructed from one    *)
(* DNG metadata record and asked for its matrices.  The asserts of the     *)
(* solver are compiled in or out by the build.                             *)
(***************************************************************************)
\* XYZ_to_RGB_matrix values: the identity, a matrix whose inverse has
\* entries that sum to zero, and a sheared one
MatrixIdentity == << One, Zero, Zero,  Zero, One, Zero,  Zero, Zero, One >>
MatrixZeroSumInverse ==
    << One, Zero, Zero,  Zero, One, Zero,  Zero, Zero, <<-1, 2>> >>
MatrixSheared == << One, Zero, Zero,  <<1, 2>>, One, Zero,  Zero, Zero, <<2, 1>> >>

\* the two color matrices of a file
CalibrationMatrices ==
    { <<MatrixIdentity, MatrixSheared>>, <<MatrixZeroSumInverse, MatrixIdentity>>,
      <<MatrixSheared, MatrixIdentity>> }

\* the two calibration illuminant tags of a file: standard light A and D65,
\* none, and the same tag twice
CalibrationTags == { <<17, 21>>, <<0, 0>>, <<21, 21>> }

\* neutral_RGB values ( 1 / cam_mul )
NeutralRGBs ==
    { << <<1, 2>>, One, One >>, << One, One, One >>, << One, One, <<1, 2>> >> }

\* baseline_exposure values, in whole stops
BaselineExposures == {-1, 0, 1, 2}

MetadataInputs ==
    { [calibration |->
           << [illuminant |-> t[1], XYZ_to_RGB_matrix |-> m[1]],
              [illuminant |-> t[2], XYZ_to_RGB_matrix |-> m[2]] >>,
       neutral_RGB |-> n,
       baseline_exposure |-> e] :
        t \in CalibrationTags, m \in CalibrationMatrices,
        n \in NeutralRGBs, e \in BaselineExposures }

\* assert is compiled out when NDEBUG is defined
Builds == {"debug", "release"}

InitMeta ==
    /\ SolverInit
    /\ db = DatabaseFull
    /\ build \in Builds
    /\ core_op = NoOp
    /\ metadata \in MetadataInputs
    /\ meta_op = NoOp
    /\ converter = <<>>
    /\ conv_op = NoOp
    /\ peer = <<>>
    /\ disk = <<>>
    /\ program = <<>>

\* a call on the MetadataSolver: a failing assert ends the process, and
\* otherwise the matrix is returned
MetadataSolverCall(name, passes, matrix) ==
    /\ ~aborted
    /\ IF build = "debug" /\ ~passes
       THEN /\ aborted' = TRUE
            /\ meta_op' = [name |-> name, ret |-> "abort", matrix |-> <<>>]
       ELSE /\ meta_op' = [name |-> name, ret |-> "matrix", matrix |-> matrix]
            /\ UNCHANGED aborted
    /\ UNCHANGED <<db, camera, illuminant, observer, training_data,
                   all_illuminants, WB_multipliers, IDT_matrix, fit_memo, op,
                   calls, build, metadata, converter, conv_op, peer, disk, program,
                   core_op>>

calculate_CAT_matrix ==
    MetadataSolverCall("calculate_CAT_matrix", CATAsserts(metadata),
                       MetadataSolver_calculate_CAT_matrix(metadata))

calculate_DNG_IDT_matrix ==
    MetadataSolverCall("calculate_IDT_matrix", IDTAsserts(metadata),
                       MetadataSolver_calculate_IDT_matrix(metadata))

NextMeta == calculate_CAT_matrix \/ calculate_DNG_IDT_matrix

SpecMeta == InitMeta /\ [][NextMeta]_vars

(***************************************************************************)
(* ImageConverter: parse_parameters fills the settings once, and configure *)
(* is called for one file after another.  An image_spec is what the reader *)
(* reports for a file: whether it is a DNG, the camera, raw:cam_mul and    *)
(* raw:pre_mul ( <<>>: no such attribute ) and the DNG calibration data.   *)
(***************************************************************************)
\* the files configured at most
MaxFiles == 2

\* --custom-wb and --custom-mat
UserWB == << <<2, 1>>, One, <<3, 1>>, One >>
UserMatrix ==
    << << <<3, 2>>, <<-1, 2>>, Zero >>, << Zero, One, Zero >>,
       << Zero, <<-1, 4>>, <<5, 4>> >> >>

\* the command lines: --wb-method, --mat-method, --illuminant ( not given,
\* or D65 ) and --overwrite; the custom values are given with the custom
\* methods
CommandLines ==
    [wb_method : {"metadata", "illuminant", "box", "custom"},
     mat_method : {"spectral", "metadata", "Adobe", "custom"},
     illuminant : { <<>>, <<"D","6","5">> },
     overwrite : BOOLEAN]

\* ImageConverter::parse_parameters: the settings
parse_parameters(args) ==
    [WB_method |-> args.wb_method,
     matrix_method |-> args.mat_method,
     illuminant |-> IF args.wb_method = "illuminant" /\ args.illuminant = <<>>
                    THEN <<"D","5","5">> ELSE args.illuminant,
     custom_WB |-> IF args.wb_method = "custom" THEN UserWB
                   ELSE <<One, One, One, One>>,
     custom_matrix |-> IF args.mat_method = "custom" THEN UserMatrix
                       ELSE neutral3,
     overwrite |-> args.overwrite]

\* the files: a raw file and a DNG of a camera of the database, and a raw
\* file of another camera without raw:cam_mul
ImageSpecs ==
    { [is_DNG |-> FALSE, cameraMake |-> <<"N","K">>, cameraModel |-> <<"D","2">>,
       cam_mul |-> << <<3, 1>>, <<2, 1>>, <<4, 1>>, <<2, 1>> >>,
       pre_mul |-> << <<3, 2>>, One, <<2, 1>>, One >>,
       dng |-> <<>>],
      [is_DNG |-> TRUE, cameraMake |-> <<"N","K">>, cameraModel |-> <<"D","2">>,
       cam_mul |-> << <<2, 1>>, One, <<2, 1>>, One >>,
       pre_mul |-> << <<2, 1>>, One, <<2, 1>>, Zero >>,
       dng |-> [calibration |->
                    << [illuminant |-> 17, XYZ_to_RGB_matrix |-> MatrixIdentity],
                       [illuminant |-> 21, XYZ_to_RGB_matrix |-> MatrixSheared] >>,
                baseline_exposure |-> 1]],
      [is_DNG |-> FALSE, cameraMake |-> <<"z">>, cameraModel |-> <<"D","2">>,
       cam_mul |-> <<>>,
       pre_mul |-> << <<2, 1>>, <<2, 1>>, <<3, 1>>, <<2, 1>> >>,
       dng |-> <<>>] }

\* what a prepare_transform function leaves: its result ( "true", "false",
\* or the way the process ended ) and the three vectors it was handed
Prepared(ret, WB, IDT, CAT) ==
    [ret |-> ret, WB_multipliers |-> WB, IDT_matrix |-> IDT, CAT_matrix |-> CAT]

\* fetch_camera_make_and_model with no --custom-camera-make / -model
fetch_camera_make_and_model(image_spec) ==
    image_spec.cameraMake # <<>> /\ image_spec.cameraModel # <<>>

\* SpectralSolver::find_illuminant( type ) on a solver with illuminant illum:
\* the result and the illuminant after the call
SolverFindIlluminant(d, illum, type) ==
    LET branch == NameBranch(type)
        cct == NameCCT(type)
        is_daylight == (branch = "daylight")
        tag == IF is_daylight THEN <<"d">> \o to_string(cct)
               ELSE to_string(cct) \o <<"k">>
    IN  IF branch = "database"
        THEN LET r == FindIlluminantScan(collect_data_files(d, "illuminant"),
                                         illum, type)
             IN  [ret |-> Bool(r.ret), illuminant |-> r.illuminant]
        ELSE IF GeneratorInRange(cct, is_daylight)
        THEN [ret |-> "true",
              illuminant |-> generate_illuminant(cct, tag, is_daylight, illum)]
        ELSE [ret |-> "exit", illuminant |-> illum]

\* prepare_transform_spectral.  d is the database of
\* settings.database_directories and outcome what the fit of
\* calculate_IDT_matrix leaves behind.
prepare_transform_spectral(image_spec, settings, WB, IDT, CAT, d, outcome) ==
    LET lower_illuminant == LowerStr(settings.illuminant)
        cam == FindCameraScan(collect_data_files(d, "camera"), EmptyData,
                              image_spec.cameraMake, image_spec.cameraModel)
        training == load_spectral_data(d.training, EmptyData)
        obs == load_spectral_data(d.cmf, EmptyData)
        named == SolverFindIlluminant(d, EmptyData, lower_illuminant)
        weights == calWB(cam.camera, named.illuminant)
        fit == curveFit(outcome, neutral3)
    IN  IF ~fetch_camera_make_and_model(image_spec) THEN Prepared("false", WB, IDT, CAT)
        ELSE IF ~cam.ret \/ ~training.ret \/ ~obs.ret THEN Prepared("false", WB, IDT, CAT)
        ELSE IF lower_illuminant # <<>>
        THEN IF named.ret # "true" THEN Prepared(named.ret, WB, IDT, CAT)
             ELSE \* calculate_WB, then WB_multipliers = solver.get_WB_multipliers()
                  IF ~fit.ret THEN Prepared("false", weights.wb, IDT, CAT)
                  ELSE Prepared("true", weights.wb, fit.IDT, <<>>)
        ELSE \* find_illuminant( tmp_wb_multipliers ) succeeds with a camera
             \* loaded; the multipliers it finds stay in the solver, and
             \* WB_multipliers is not written
             IF ~fit.ret THEN Prepared("false", WB, IDT, CAT)
             ELSE Prepared("true", WB, fit.IDT, <<>>)

\* prepare_transform_DNG in the build bld
prepare_transform_DNG(image_spec, settings, IDT, WB, CAT, bld) ==
    LET md == [calibration |-> image_spec.dng.calibration,
               baseline_exposure |-> image_spec.dng.baseline_exposure,
               neutral_RGB |->
                   IF image_spec.cam_mul # <<>>
                   THEN [i \in 1..3 |-> RDiv(One, image_spec.cam_mul[i])]
                   ELSE <<Zero, Zero, Zero>>]
    IN  IF ~fetch_camera_make_and_model(image_spec) THEN Prepared("false", WB, IDT, CAT)
        ELSE IF bld = "debug" /\ ~IDTAsserts(md) THEN Prepared("abort", WB, IDT, CAT)
        ELSE Prepared("true", WB, MetadataSolver_calculate_IDT_matrix(md), <<>>)

\* CAT_D65_to_ACES (stand-in)
CAT_D65_to_ACES ==
    << << One, Zero, Zero >>, << Zero, One, Zero >>, << Zero, Zero, <<15, 16>> >> >>

\* prepare_transform_nonDNG leaving the IDT matrix as it is
prepare_transform_nonDNGKeepingIDT(WB, IDT) ==
    Prepared("true", WB, IDT, CAT_D65_to_ACES)

\* prepare_transform_nonDNG
prepare_transform_nonDNG(WB, IDT) ==
    Prepared("true", WB, <<>>, CAT_D65_to_ACES)

\* ImageConverter::configure( image_spec, options ) on the converter conv:
\* the result and _WB_multipliers, _IDT_matrix, _CAT_matrix after the call
configure(conv, image_spec, outcome, d, bld) ==
    LET settings == conv.settings
        WB == IF settings.WB_method = "metadata" /\ image_spec.cam_mul # <<>>
              THEN image_spec.cam_mul
              ELSE IF settings.WB_method = "custom" THEN settings.custom_WB
              ELSE conv.WB_multipliers
        IDT == IF settings.matrix_method = "custom" THEN settings.custom_matrix
               ELSE conv.IDT_matrix
        spectral == IF settings.WB_method = "illuminant"
                       \/ settings.matrix_method = "spectral"
                    THEN prepare_transform_spectral(image_spec, settings, WB, IDT,
                                                    conv.CAT_matrix, d, outcome)
                    ELSE Prepared("true", WB, IDT, conv.CAT_matrix)
    IN  IF spectral.ret # "true" THEN spectral
        ELSE IF settings.matrix_method = "metadata"
        THEN IF image_spec.is_DNG
             THEN prepare_transform_DNG(image_spec, settings, spectral.IDT_matrix,
                                        spectral.WB_multipliers,
                                        spectral.CAT_matrix, bld)
             ELSE prepare_transform_nonDNG(spectral.WB_multipliers,
                                           spectral.IDT_matrix)
        ELSE IF settings.matrix_method = "Adobe"
        THEN prepare_transform_nonDNG(spectral.WB_multipliers, spectral.IDT_matrix)
        ELSE spectral

\* a converter after parse_parameters
ParsedConverter(args) ==
    [settings |-> parse_parameters(args), WB_multipliers |-> <<>>,
     IDT_matrix |-> <<>>, CAT_matrix |-> <<>>, files |-> 0]

InitConv ==
    /\ SolverInit
    /\ build \in Builds
    /\ core_op = NoOp
    /\ metadata = <<>>
    /\ meta_op = NoOp
    /\ \E args \in CommandLines : converter = ParsedConverter(args)
    /\ conv_op = NoOp
    /\ peer = <<>>
    /\ disk = <<>>
    /\ program = <<>>

\* a call of configure for a file
Configure(image_spec, outcome) ==
    /\ ~aborted
    /\ converter.files < MaxFiles
    /\ \E r \in {configure(converter, image_spec, outcome, db, build)} :
        /\ converter' = [converter EXCEPT !.WB_multipliers = r.WB_multipliers,
                                          !.IDT_matrix = r.IDT_matrix,
                                          !.CAT_matrix = r.CAT_matrix,
                                          !.files = @ + 1]
        /\ conv_op' = Returned("configure", <<image_spec, outcome>>, r.ret)
        /\ aborted' = (r.ret \in {"exit", "abort"})
    /\ UNCHANGED <<db, camera, illuminant, observer, training_data,
                   all_illuminants, WB_multipliers, IDT_matrix, fit_memo, op,
                   calls, build, metadata, meta_op, peer, disk, program,
                   core_op>>

NextConv == \E image_spec \in ImageSpecs, outcome \in FitOutcomes :
                Configure(image_spec, outcome)

SpecConv == InitConv /\ [][NextConv]_vars

(***************************************************************************)
(* The rawtoaces program: main collects the image files of the paths of    *)
(* its command line into batches and calls process_image for one file     *)
(* after another.  A path is a record [dir, stem, ext]; the file system is *)
(* fixed but for the output files, which disk holds.                       *)
(***************************************************************************)
\* the paths given on a command line at most
MaxPaths == 3

\* two raw files with the same stem, a directory, and a path that does not
\* exist
InputPaths ==
    { [dir |-> "", stem |-> "a", ext |-> ".cr2"],
      [dir |-> "", stem |-> "a", ext |-> ".dng"],
      [dir |-> "", stem |-> "shots", ext |-> ""],
      [dir |-> "", stem |-> "missing", ext |-> ".cr2"] }

\* std::filesystem::directory_iterator( path ): the entries of the directory
\* shots, the last of them a subdirectory
directory_iterator(path) ==
    IF path.stem = "shots" /\ path.dir = ""
    THEN << [dir |-> "shots", stem |-> "b", ext |-> ".cr2"],
            [dir |-> "shots", stem |-> "b", ext |-> ".jpg"],
            [dir |-> "shots", stem |-> ".DS_Store", ext |-> ""],
            [dir |-> "shots", stem |-> "sub", ext |-> ""] >>
    ELSE <<>>

\* std::filesystem::exists, is_directory and is_regular_file
exists(path) == path.stem # "missing"
is_directory(path) == path.stem \in {"shots", "sub"}
is_regular_file(path) == exists(path) /\ ~is_directory(path)

\* check_and_add_file: the batch after the call
check_and_add_file(path, batch) ==
    IF is_regular_file(path)
    THEN IF path.stem = ".DS_Store" /\ path.ext = "" THEN batch
         ELSE IF path.ext \in {".exr", ".EXR", ".jpg", ".JPG", ".jpeg", ".JPEG"}
         THEN batch
         ELSE Append(batch, path)
    ELSE batch

RECURSIVE AddEntries(_, _)
\* the loop of collect_image_files over the entries of a directory
AddEntries(entries, curr_batch) ==
    IF entries = <<>> THEN curr_batch
    ELSE AddEntries(Tail(entries), check_and_add_file(Head(entries), curr_batch))

\* collect_image_files( path, batches ): the result and the batches after
\* the call
collect_image_files(path, batches) ==
    IF ~exists(path) THEN [ret |-> FALSE, batches |-> batches]
    ELSE IF is_directory(path)
    THEN [ret |-> TRUE,
          batches |-> Append(batches, AddEntries(directory_iterator(path), <<>>))]
    ELSE [ret |-> TRUE,
          batches |-> [batches EXCEPT ![1] = check_and_add_file(path, @)]]

\* the output file of an input file, with the default suffix and no output
\* directory
OutputOf(path) == [path EXCEPT !.ext = "_aces.exr"]

\* the output files of the model
OutputPaths ==
    {OutputOf(p) : p \in {q \in InputPaths : is_regular_file(q)}}
        \cup {OutputOf(directory_iterator(q)[1]) : q \in {r \in InputPaths : is_directory(r)}}

\* make_output_path ignoring the file that is there
make_output_pathOverwriting(path, settings, dsk) ==
    [ret |-> TRUE, path |-> OutputOf(path)]

\* make_output_path: the result and the output path
make_output_path(path, settings, dsk) ==
    IF ~settings.overwrite /\ dsk[OutputOf(path)] # "absent"
    THEN [ret |-> FALSE, path |-> path]
    ELSE [ret |-> TRUE, path |-> OutputOf(path)]

\* the image_spec the reader reports for an input file
SpecOf(path) ==
    IF path.ext = ".dng" THEN CHOOSE sp \in ImageSpecs : sp.is_DNG
    ELSE CHOOSE sp \in ImageSpecs : ~sp.is_DNG /\ sp.cam_mul # <<>>

\* the stages of process_image after configure, in the order of the calls
PixelStages ==
    <<"load_image", "apply_matrix", "apply_scale", "apply_crop", "save_image">>

RECURSIVE RunStagesPastScale(_, _)
\* RunStages with the result of apply_scale not looked at
RunStagesPastScale(i, failing) ==
    IF i > Len(PixelStages) THEN <<>>
    ELSE IF PixelStages[i] = failing /\ failing # "apply_scale"
    THEN <<PixelStages[i]>>
    ELSE <<PixelStages[i]>> \o RunStagesPastScale(i + 1, failing)

RECURSIVE RunStages(_, _)
\* the stages process_image calls from stage i on, when the stage failing
\* returns false ( "none": every stage returns true )
RunStages(i, failing) ==
    IF i > Len(PixelStages) THEN <<>>
    ELSE IF PixelStages[i] = failing THEN <<PixelStages[i]>>
    ELSE <<PixelStages[i]>> \o RunStages(i + 1, failing)

\* the stage called last
LastStage(stages) == stages[Len(stages)]

\* the rest of process_image once make_output_path has returned out and
\* configure has returned r: the stages called are kept in order, failed is
\* the stage that returned false.  save_image that fails is one whose open
\* fails: it leaves the disk as it is.
Processed(conv, dsk, input_filename, out, r, failing) ==
    IF r.ret # "true"
    THEN [ret |-> r.ret, disk |-> dsk,
          converter |-> [conv EXCEPT !.WB_multipliers = r.WB_multipliers,
                                     !.IDT_matrix = r.IDT_matrix,
                                     !.CAT_matrix = r.CAT_matrix,
                                     !.files = @ + 1],
          stages |-> <<"make_output_path", "configure">>,
          failed |-> IF r.ret = "false" THEN "configure" ELSE "none"]
    ELSE [ret |-> Bool(LastStage(RunStages(1, failing)) # failing),
          disk |-> IF LastStage(RunStages(1, failing)) = "save_image"
                      /\ failing # "save_image"
                   THEN [dsk EXCEPT ![out.path] = input_filename.ext]
                   ELSE dsk,
          converter |-> [conv EXCEPT !.WB_multipliers = r.WB_multipliers,
                                     !.IDT_matrix = r.IDT_matrix,
                                     !.CAT_matrix = r.CAT_matrix,
                                     !.files = @ + 1],
          stages |-> <<"make_output_path", "configure">>
                         \o RunStages(1, failing),
          failed |-> failing]

\* ImageConverter::process_image( input_filename ): the result, the
\* converter and the disk after the call, with the fit of the solver ending
\* as outcome and the pixel stage failing returning false
process_image(conv, dsk, input_filename, outcome, d, bld, failing) ==
    IF ~make_output_path(input_filename, conv.settings, dsk).ret
    THEN [ret |-> "false", converter |-> conv, disk |-> dsk,
          stages |-> <<"make_output_path">>, failed |-> "make_output_path"]
    ELSE Processed(conv, dsk, input_filename,
                   make_output_path(input_filename, conv.settings, dsk),
                   configure(conv, SpecOf(input_filename), outcome, d, bld),
                   failing)

RECURSIVE Flatten(_)
\* the files of the batches in the order the loops of main visit them
Flatten(batches) ==
    IF batches = <<>> THEN <<>> ELSE Head(batches) \o Flatten(Tail(batches))

\* the command lines of the program runs: white balance from the metadata,
\* the matrix Adobe or spectral, no --illuminant
ProgramCommandLines ==
    {args \in CommandLines :
        /\ args.wb_method = "metadata"
        /\ args.mat_method \in {"Adobe", "spectral"}
        /\ args.illuminant = <<>>}

InitMain ==
    /\ SolverInit
    /\ db = DatabaseFull
    /\ build = "release"
    /\ core_op = NoOp
    /\ metadata = <<>>
    /\ meta_op = NoOp
    /\ \E args \in ProgramCommandLines : converter = ParsedConverter(args)
    /\ conv_op = NoOp
    /\ peer = <<>>
    /\ disk \in [OutputPaths -> {"absent", "old"}]
    /\ \E files \in UNION {[1..n -> InputPaths] : n \in 1..MaxPaths} :
          program = [files |-> files, next |-> 1, batches |-> << <<>> >>,
                     pc |-> "collect", attempted |-> 0,
                     last |-> [input |-> <<>>, ret |-> "none"],
                     exit_code |-> -1]

\* one turn of the loop of main over the paths
CollectPath ==
    /\ program.pc = "collect"
    /\ LET r == collect_image_files(program.files[program.next], program.batches)
       IN  program' =
               IF ~r.ret
               THEN [program EXCEPT !.pc = "exit", !.exit_code = 1]
               ELSE [program EXCEPT !.batches = r.batches,
                                    !.next = @ + 1,
                                    !.pc = IF program.next = Len(program.files)
                                           THEN "process" ELSE "collect"]
    /\ UNCHANGED <<solver_vars, build, metadata, meta_op, converter, conv_op,
                   peer, disk, core_op>>

\* the loops of main with the breaks left out
AfterFileContinuing(result) == "process"

\* if ( !result ) break; in both loops of main: where main goes on after a
\* file
AfterFile(result) == IF result = "true" THEN "process" ELSE "exit"

\* one turn of the loops of main over the batches and their files ( the
\* stages after configure succeed )
ProcessImage(outcome) ==
    /\ program.pc = "process"
    /\ ~aborted
    /\ program.attempted < Len(Flatten(program.batches))
    /\ \E r \in {process_image(converter, disk,
                               Flatten(program.batches)[program.attempted + 1],
                               outcome, db, build, "none")} :
        /\ converter' = r.converter
        /\ disk' = r.disk
        /\ aborted' = (r.ret \in {"exit", "abort"})
        /\ program' =
               [program EXCEPT
                   !.attempted = @ + 1,
                   !.last = [input |-> Flatten(program.batches)[program.attempted + 1],
                             ret |-> r.ret],
                   !.pc = AfterFile(r.ret),
                   !.exit_code = IF r.ret = "true" THEN @ ELSE 1]
    /\ UNCHANGED <<db, camera, illuminant, observer, training_data,
                   all_illuminants, WB_multipliers, IDT_matrix, fit_memo, op,
                   calls, build, metadata, meta_op, conv_op, peer, core_op>>

\* the loops are through: return result ? 0 : 1
Return ==
    /\ program.pc = "process"
    /\ program.attempted = Len(Flatten(program.batches))
    /\ program' = [program EXCEPT !.pc = "exit", !.exit_code = 0]
    /\ UNCHANGED <<solver_vars, build, metadata, meta_op, converter, conv_op,
                   peer, disk, core_op>>

NextMain ==
    \/ CollectPath
    \/ \E outcome \in FitOutcomes : ProcessImage(outcome)
    \/ Return

SpecMain == InitMain /\ [][NextMain]_vars

(***************************************************************************)
(* Two solvers in one process: the calls on the SpectralSolver of the      *)
(* solver variables are interleaved with calls on a second one, peer.      *)
(***************************************************************************)
\* find_camera, find_illuminant( type ) and calculate_WB on the solver
\* record sv: the record after the call and the result ( "exit" and "fault":
\* the call ends the process )
SolverCall(sv, call, d) ==
    IF call.name = "find_camera"
    THEN LET r == FindCameraScan(collect_data_files(d, "camera"), sv.camera,
                                 call.arg[1], call.arg[2])
         IN  [solver |-> [sv EXCEPT !.camera = r.camera], ret |-> Bool(r.ret)]
    ELSE IF call.name = "find_illuminant_type"
    THEN LET r == SolverFindIlluminant(d, sv.illuminant, call.arg)
         IN  [solver |-> [sv EXCEPT !.illuminant = r.illuminant], ret |-> r.ret]
    ELSE IF Unset(sv.illuminant, 1) THEN [solver |-> sv, ret |-> "false"]
    ELSE IF Unset(sv.camera, 3) THEN [solver |-> sv, ret |-> "fault"]
    ELSE LET w == calWB(sv.camera, sv.illuminant)
         IN  [solver |-> [sv EXCEPT !.WB_multipliers = w.wb,
                                    !.illuminant = w.illuminant],
              ret |-> "true"]

\* the calls made on the second solver
PeerCalls ==
    {[name |-> "find_camera", arg |-> q] : q \in CameraQueries}
        \cup {[name |-> "find_illuminant_type", arg |-> t] : t \in CoreNames}
        \cup {[name |-> "calculate_WB", arg |-> <<>>]}

InitTwo ==
    /\ SolverInit
    /\ db = DatabaseFull
    /\ build = "release"
    /\ core_op = NoOp
    /\ metadata = <<>>
    /\ meta_op = NoOp
    /\ converter = <<>>
    /\ conv_op = NoOp
    /\ peer = [camera |-> EmptyData, illuminant |-> EmptyData,
               WB_multipliers |-> <<One, One, One>>, op |-> NoOp, calls |-> 0]
    /\ disk = <<>>
    /\ program = <<>>

\* a call on the second solver
PeerCall(call) ==
    /\ ~aborted
    /\ peer.calls < MaxWBCalls
    /\ \E r \in {SolverCall(peer, call, db)} :
        /\ peer' = [r.solver EXCEPT !.op = Returned(call.name, call.arg, r.ret),
                                    !.calls = @ + 1]
        /\ aborted' = (r.ret \in {"exit", "fault"})
    /\ UNCHANGED <<db, camera, illuminant, observer, training_data,
                   all_illuminants, WB_multipliers, IDT_matrix, fit_memo, op,
                   calls, build, metadata, meta_op, converter, conv_op, disk,
                   program, core_op>>

NextTwo ==
    \/ /\ calls < MaxWBCalls
       /\ \/ \E q \in CameraQueries : find_camera(q[1], q[2])
          \/ \E type \in CoreNames : find_illuminant_type(type)
          \/ calculate_WB
    \/ \E call \in PeerCalls : PeerCall(call)

SpecTwo == InitTwo /\ [][NextTwo]_vars

(***************************************************************************)
(* The command line: parse_parameters is called once, on a converter as    *)
(* constructed.  The class header with the defaults of Settings is not     *)
(* among the sources: a fresh converter holds any of the crop modes, and   *)
(* the rest of its settings is what the default command line gives.        *)
(***************************************************************************)
\* the values given to --crop-mode: those of the help text, the one the
\* code compares with, another spelling and the empty string
CropModeArgs == {"none", "soft", "hard", "off", "Soft", ""}

\* the --crop-mode step of parse_parameters on settings with the crop mode
\* mode: whether parsing goes on, and the mode stored
parse_crop_mode(crop_mode, mode) ==
    IF crop_mode = "off" THEN [ok |-> TRUE, crop_mode |-> "Off"]
    ELSE IF crop_mode = "soft" THEN [ok |-> TRUE, crop_mode |-> "Soft"]
    ELSE IF crop_mode = "hard" THEN [ok |-> TRUE, crop_mode |-> "Hard"]
    ELSE [ok |-> FALSE, crop_mode |-> mode]

\* the settings parse_parameters leaves and its result: the methods, the
\* illuminant and the custom values are stored before --crop-mode is looked
\* at, overwrite after it
parse_parameters_settings(settings, args, crop_mode) ==
    LET parsed == parse_parameters(args)
        crop == parse_crop_mode(crop_mode, settings.crop_mode)
    IN  [ret |-> Bool(crop.ok),
         settings |->
            [f \in DOMAIN settings |->
                IF f = "crop_mode" THEN crop.crop_mode
                ELSE IF f = "overwrite" /\ ~crop.ok THEN settings.overwrite
                ELSE parsed[f]]]

\* the settings of a converter as constructed, with the crop mode mode
ConstructedSettings(mode) ==
    LET parsed == parse_parameters([wb_method |-> "metadata",
                                    mat_method |-> "spectral",
                                    illuminant |-> <<>>, overwrite |-> FALSE])
    IN  [f \in DOMAIN parsed \cup {"crop_mode"} |->
            IF f = "crop_mode" THEN mode ELSE parsed[f]]

InitArgs ==
    /\ SolverInit
    /\ db = DatabaseFull
    /\ build = "release"
    /\ core_op = NoOp
    /\ metadata = <<>>
    /\ meta_op = NoOp
    /\ \E mode \in {"Off", "Soft", "Hard"} :
        converter = [settings |-> ConstructedSettings(mode)]
    /\ conv_op = NoOp
    /\ peer = <<>>
    /\ disk = <<>>
    /\ program = <<>>

\* the call of parse_parameters
ParseParameters(args, crop_mode) ==
    /\ conv_op = NoOp
    /\ \E r \in {parse_parameters_settings(converter.settings, args, crop_mode)} :
        /\ converter' = [converter EXCEPT !.settings = r.settings]
        /\ conv_op' = Returned("parse_parameters",
                               [args |-> args, crop_mode |-> crop_mode], r.ret)
    /\ UNCHANGED <<db, camera, illuminant, observer, training_data,
                   all_illuminants, WB_multipliers, IDT_matrix, fit_memo,
                   aborted, op, calls, build, metadata, meta_op, peer, disk,
                   program, core_op>>

NextArgs == \E args \in CommandLines, crop_mode \in CropModeArgs :
                ParseParameters(args, crop_mode)

SpecArgs == InitArgs /\ [][NextArgs]_vars

(***************************************************************************)
(* The free functions of the core library, called on their own: core_op    *)
(* keeps the last call, its arguments and what it returned.                *)
(***************************************************************************)
\* the tags given to lightSourceToColorTemp: the low tags, with those of the
\* table among them, and the tags around 32768 and at the upper end
TagInputs == 0 .. 40 \cup {255, 32767} \cup 32768 .. 32830 \cup {35624, 65535}

\* a call of lightSourceToColorTemp
LightSourceToColorTemp(tag) ==
    /\ ~aborted
    /\ core_op' = Returned("lightSourceToColorTemp", tag,
                           lightSourceToColorTemp(tag))
    /\ UNCHANGED <<solver_vars, build, metadata, meta_op, converter, conv_op,
                   peer, disk, program>>

\* the wavelengths of s_series: 300, 310, ..., 830
s_series_wl == [i \in 1 .. 54 |-> 300 + 10 * (i - 1)]

\* calculate_daylight_SPD with the test of the sample wavelength against
\* 380 made strict
calculate_daylight_SPD_wavelengthsOpen(inc) ==
    LET size == (s_series_wl[54] - s_series_wl[1]) \div inc + 1
        wls1 == [i \in 1 .. size |-> s_series_wl[1] + inc * (i - 1)]
    IN  SelectSeq(wls1, LAMBDA index : index > 380 /\ index <= 780)

\* calculate_daylight_SPD on a spectrum of step inc, for a CCT in range: the
\* wavelengths of the samples pushed into spectrum.values, in order
calculate_daylight_SPD_wavelengths(inc) ==
    LET size == (s_series_wl[54] - s_series_wl[1]) \div inc + 1
        wls1 == [i \in 1 .. size |-> s_series_wl[1] + inc * (i - 1)]
    IN  SelectSeq(wls1, LAMBDA index : index >= 380 /\ index <= 780)

RECURSIVE calculate_blackbody_SPD_wavelengths(_)
\* calculate_blackbody_SPD, for a CCT in range: the wavelengths of the
\* samples pushed by the loop from wav on
calculate_blackbody_SPD_wavelengths(wav) ==
    IF wav <= 780
    THEN <<wav>> \o calculate_blackbody_SPD_wavelengths(wav + step)
    ELSE <<>>

\* the CCTs given to the generators: the ends of the accepted ranges, their
\* neighbours and values inside
SPDInputs ==
    {39, 40, 55, 250, 251, 1499, 1500, 2856, 3999, 4000, 5500, 6504, 25000,
     25001}

\* a call of calculate_daylight_SPD or calculate_blackbody_SPD on the
\* Spectrum( 0 ) that generate_illuminant makes, whose step is that of the
\* reference shape: the samples pushed, or exit( 1 )
CalculateSPD(cct, is_daylight) ==
    /\ ~aborted
    /\ aborted' = ~GeneratorInRange(cct, is_daylight)
    /\ core_op' =
           Returned(IF is_daylight THEN "calculate_daylight_SPD"
                    ELSE "calculate_blackbody_SPD",
                    cct,
                    IF ~GeneratorInRange(cct, is_daylight) THEN <<"exit">>
                    ELSE IF is_daylight
                    THEN calculate_daylight_SPD_wavelengths(step)
                    ELSE calculate_blackbody_SPD_wavelengths(380))
    /\ UNCHANGED <<db, camera, illuminant, observer, training_data,
                   all_illuminants, WB_multipliers, IDT_matrix, fit_memo, op,
                   calls, build, metadata, meta_op, converter, conv_op, peer,
                   disk, program>>

NextCore ==
    \/ \E tag \in TagInputs : LightSourceToColorTemp(tag)
    \/ \E cct \in SPDInputs, is_daylight \in BOOLEAN :
           CalculateSPD(cct, is_daylight)

SpecCore == Init /\ [][NextCore]_vars

(***************************************************************************)
(* process_image on its own: one converter converts one file after         *)
(* another; each of the stages after configure can return false.           *)
(***************************************************************************)
\* the stage after configure that returns false in a call ( "none": none )
StageFailures == {"none"} \cup {PixelStages[i] : i \in 1 .. Len(PixelStages)}

\* the image files handed to process_image
ImageFiles ==
    {p \in InputPaths : is_regular_file(p)}
        \cup {directory_iterator(q)[1] : q \in {r \in InputPaths : is_directory(r)}}

InitImage ==
    /\ SolverInit
    /\ db = DatabaseFull
    /\ build = "release"
    /\ core_op = NoOp
    /\ metadata = <<>>
    /\ meta_op = NoOp
    /\ \E args \in ProgramCommandLines : converter = ParsedConverter(args)
    /\ conv_op = NoOp
    /\ peer = <<>>
    /\ disk \in [OutputPaths -> {"absent", "old"}]
    /\ program = <<>>

\* a call of process_image
ProcessOne(input_filename, outcome, failing) ==
    /\ ~aborted
    /\ converter.files < MaxFiles
    /\ \E r \in {process_image(converter, disk, input_filename, outcome, db,
                               build, failing)} :
        /\ converter' = r.converter
        /\ disk' = r.disk
        /\ aborted' = (r.ret \in {"exit", "abort"})
        /\ conv_op' = Returned("process_image",
                               [input |-> input_filename, stages |-> r.stages,
                                failed |-> r.failed],
                               r.ret)
    /\ UNCHANGED <<db, camera, illuminant, observer, training_data,
                   all_illuminants, WB_multipliers, IDT_matrix, fit_memo, op,
                   calls, build, metadata, meta_op, peer, program, core_op>>

NextImage ==
    \E input_filename \in ImageFiles, outcome \in FitOutcomes,
       failing \in StageFailures :
        ProcessOne(input_filename, outcome, failing)

SpecImage == InitImage /\ [][NextImage]_vars

(***************************************************************************)
(* The mired walk of findXYZtoCameraMtx, one turn of its loop per step.    *)
(* core_op keeps the call, and in frame the locals of the function.  The   *)
(* mired the neutral is seen at through the matrix interpolated at mir     *)
(* ( invertV, mulVector, XYZToColorTemperature, ccttoMired ) is an input   *)
(* of the walk: the scene.                                                 *)
(***************************************************************************)
\* ccttoMired: 1.0E06 / cct, for a whole number of Kelvin
ccttoMired(cct) == Rat(1000000, cct)

\* std::min and std::max on doubles
RMin(a, b) == IF RLess(b, a) THEN b ELSE a
RMax(a, b) == IF RLess(a, b) THEN b ELSE a

\* the sign of a double: that of a product is the product of the signs
RSign(x) == IF x[1] > 0 THEN 1 ELSE IF x[1] < 0 THEN -1 ELSE 0

\* mir1, mir2, lomir, himir and mirStep for the two calibration tags
MiredRange(tags) ==
    LET mir1 == ccttoMired(lightSourceToColorTemp(tags[1]))
        mir2 == ccttoMired(lightSourceToColorTemp(tags[2]))
        maxMir == ccttoMired(2000)
        minMir == ccttoMired(50000)
        lomir == RMax(minMir, RMin(maxMir, RMin(mir1, mir2)))
        himir == RMax(minMir, RMin(maxMir, RMax(mir1, mir2)))
    IN  [mir1 |-> mir1, mir2 |-> mir2, lomir |-> lomir, himir |-> himir,
         mirStep |-> RMax(<<5, 1>>, RDiv(RSub(himir, lomir), <<50, 1>>))]

\* a / b on doubles for b # 0, with the common factors taken out before
\* the products are formed
RQuot(a, b) ==
    LET g1 == GCD(Abs(a[1]), Abs(b[1]))
        g2 == GCD(a[2], b[2])
    IN  IF a[1] = 0 THEN Zero
        ELSE Rat((a[1] \div g1) * (b[2] \div g2),
                 (a[2] \div g2) * (b[1] \div g1))

\* the weight of XYZtoCameraWeightedMatrix( mir0, mir1, mir2, ... ):
\* max( 0, min( 1, ( mir1 - mir0 ) / ( mir1 - mir2 ) ) ); for mir1 = mir2
\* the quotient is +infinity, -infinity or NaN, and std::min( 1.0, NaN )
\* is 1.0
MiredWeight(mir0, mir1, mir2) ==
    IF mir1 = mir2
    THEN IF RLess(mir1, mir0) THEN Zero ELSE One
    ELSE RMax(Zero, RMin(One, RQuot(RSub(mir1, mir0), RSub(mir1, mir2))))

\* the calibration tags of the walks: standard light A and D65 in both
\* orders, D65 twice, daylight and flash ( 5500 K both ), no first
\* calibration, and 1000 K with 25000 K in the direct encoding
WalkTags ==
    { <<17, 21>>, <<21, 17>>, <<21, 21>>, <<1, 20>>, <<0, 21>>,
      <<33768, 57768>> }

\* the scenes: a neutral seen at the same mired through every matrix
\* ( fixed ), at the mired of the third step of the walk ( grid ), and at a
\* mired that moves half the way with the matrix ( drift )
Scenes ==
    {[kind |-> "fixed", at |-> m] :
        m \in {<<20, 1>>, <<200, 1>>, <<331, 2>>, <<345, 1>>, <<349, 1>>,
               <<500, 1>>}}
        \cup {[kind |-> "grid", at |-> Zero],
              [kind |-> "drift", at |-> <<200, 1>>]}

\* stand-in for ccttoMired( XYZToColorTemperature( mulVector( invertV(
\* XYZtoCameraWeightedMatrix( mir, ... ) ), neutralRGB ) ) )
SceneMired(scene, range, mir) ==
    IF scene.kind = "fixed" THEN scene.at
    ELSE IF scene.kind = "grid"
    THEN RAdd(range.lomir, RMul(<<2, 1>>, range.mirStep))
    ELSE RAdd(scene.at, RMul(RSub(mir, scene.at), <<1, 2>>))

\* the locals of findXYZtoCameraMtx when the loop is entered
WalkFrame(range) ==
    [mir |-> range.lomir, lastMired |-> Zero, estimatedMired |-> Zero,
     lerror |-> Zero, lastError |-> Zero, smallestError |-> Zero,
     pc |-> "loop"]

\* the body of the loop of findXYZtoCameraMtx and its mir += mirStep, with
\* the residual lerror of this turn
LoopBody(f, range, lerror) ==
    IF ~AboveTolerance(lerror)
    THEN [f EXCEPT !.lerror = lerror, !.estimatedMired = f.mir,
                   !.pc = "break"]
    ELSE IF /\ AboveTolerance(RSub(f.mir, range.lomir))
            /\ RSign(lerror) * RSign(f.lastError) <= 0
    THEN [f EXCEPT !.lerror = lerror,
                   !.estimatedMired =
                       RAdd(f.mir,
                            RMul(RDiv(lerror, RSub(lerror, f.lastError)),
                                 RSub(f.mir, f.lastMired))),
                   !.pc = "break"]
    ELSE [f EXCEPT !.lerror = lerror,
                   !.estimatedMired =
                       IF \/ ~AboveTolerance(RSub(f.mir, range.lomir))
                          \/ RLess(<<Abs(lerror[1]), lerror[2]>>,
                                   <<Abs(f.smallestError[1]), f.smallestError[2]>>)
                       THEN f.mir ELSE @,
                   !.smallestError =
                       IF \/ ~AboveTolerance(RSub(f.mir, range.lomir))
                          \/ RLess(<<Abs(lerror[1]), lerror[2]>>,
                                   <<Abs(f.smallestError[1]), f.smallestError[2]>>)
                       THEN lerror ELSE @,
                   !.lastError = lerror,
                   !.lastMired = f.mir,
                   !.mir = RAdd(f.mir, range.mirStep)]

\* findXYZtoCameraMtx is called: it returns the first matrix at once when
\* the first tag is 0 ( weight 0 ), and sets out on the walk otherwise
\* ( neutralRGB is not empty )
WalkEnter(tags, scene) ==
    /\ ~aborted
    /\ core_op = NoOp
    /\ core_op' =
           IF tags[1] = 0
           THEN [name |-> "findXYZtoCameraMtx",
                 arg |-> [tags |-> tags, scene |-> scene],
                 ret |-> "calibration[0]", frame |-> <<>>, weight |-> Zero]
           ELSE [name |-> "findXYZtoCameraMtx",
                 arg |-> [tags |-> tags, scene |-> scene],
                 ret |-> "running", frame |-> WalkFrame(MiredRange(tags)),
                 weight |-> Zero]
    /\ UNCHANGED <<solver_vars, build, metadata, meta_op, converter, conv_op,
                   peer, disk, program>>

\* one turn of the loop
WalkStep ==
    /\ core_op.name = "findXYZtoCameraMtx"
    /\ core_op.ret = "running"
    /\ core_op.frame.pc = "loop"
    /\ \E range \in {MiredRange(core_op.arg.tags)} :
        /\ RLess(core_op.frame.mir, range.himir)
        /\ core_op' =
               [core_op EXCEPT
                   !.frame = LoopBody(@, range,
                                 RSub(@.mir, SceneMired(core_op.arg.scene,
                                                        range, @.mir)))]
    /\ UNCHANGED <<solver_vars, build, metadata, meta_op, converter, conv_op,
                   peer, disk, program>>

\* the loop is left: the matrix interpolated at estimatedMired is returned,
\* matrix1 + weight * ( matrix2 - matrix1 )
WalkReturn ==
    /\ core_op.name = "findXYZtoCameraMtx"
    /\ core_op.ret = "running"
    /\ \E range \in {MiredRange(core_op.arg.tags)} :
        /\ \/ core_op.frame.pc = "break"
           \/ ~RLess(core_op.frame.mir, range.himir)
        /\ core_op' =
               [core_op EXCEPT
                   !.ret = "returned",
                   !.frame = [@ EXCEPT !.pc = "return"],
                   !.weight = MiredWeight(core_op.frame.estimatedMired,
                                          range.mir1, range.mir2)]
    /\ UNCHANGED <<solver_vars, build, metadata, meta_op, converter, conv_op,
                   peer, disk, program>>

NextWalk ==
    \/ \E tags \in WalkTags, scene \in Scenes : WalkEnter(tags, scene)
    \/ WalkStep
    \/ WalkReturn

SpecWalk == Init /\ [][NextWalk]_vars

(***************************************************************************)
(* curveFit on the RGB and XYZ of a training set of n patches, as          *)
(* calculate_IDT_matrix calls it: calTI, calRGB and calXYZ make one row    *)
(* for each entry of training_data["main"], which is not empty.            *)
(***************************************************************************)
\* the number of patches written into Objfun::operator(), and into the
\* asserts of XYZ_to_LAB and getCalcXYZt
PatchesAssumed == 190

\* the sizes of training_data["main"]: small sets, and the sizes around the
\* one written into the code
TrainingSizes == 1 .. 30 \cup 175 .. 205

\* the rows of _RGB and _outLAB one evaluation of Objfun reads
ObjfunRowsRead == 0 .. PatchesAssumed - 1

\* the entries of residuals one evaluation of Objfun writes
ObjfunResidualsWritten ==
    {i * 3 + j : i \in 0 .. PatchesAssumed - 1, j \in 0 .. 2}

\* the number of residuals curveFit gives the cost function:
\* RGB.size() * RGB[0].size()
ResidualsDeclared(n) == n * 3

\* assert( XYZ.size() == 190 )
SizeAsserted(n) == n = PatchesAssumed

\* curveFit on n patches.  With the asserts compiled in, a set of another
\* size ends the process in XYZtoLAB( XYZ ), before the problem is built.
\* Without them Objfun reads the rows 0 .. 189 of _RGB and _outLAB and
\* writes 570 residuals: for n < 190 that is a read past the end of both
\* vectors and a write past the end of the 3 n residuals, which is undefined
\* (fault: the process is ended; otherwise the solve goes on with whatever
\* was read); for n > 190 the residuals from 570 on are never written, and
\* the solve goes on with whatever they hold.
CurveFitSized(n, outcome, fault) ==
    /\ ~aborted
    /\ IF build = "debug" /\ ~SizeAsserted(n)
       THEN /\ outcome.steps = 0
            /\ ~fault
            /\ aborted' = TRUE
            /\ core_op' = [name |-> "curveFit", arg |-> n, ret |-> "fault",
                           read |-> {}, written |-> {}, declared |-> 0]
            /\ UNCHANGED IDT_matrix
       ELSE /\ fault => n < PatchesAssumed
            /\ aborted' = fault
            /\ \E r \in {curveFit(outcome, IDT_matrix)} :
                /\ IDT_matrix' = IF fault THEN IDT_matrix ELSE r.IDT
                /\ core_op' =
                       [name |-> "curveFit", arg |-> n,
                        ret |-> IF fault THEN "fault" ELSE Bool(r.ret),
                        read |-> ObjfunRowsRead,
                        written |-> ObjfunResidualsWritten,
                        declared |-> ResidualsDeclared(n)]
    /\ UNCHANGED <<db, camera, illuminant, observer, training_data,
                   all_illuminants, WB_multipliers, fit_memo, op, calls,
                   build, metadata, meta_op, converter, conv_op, peer, disk,
                   program>>

InitFit ==
    /\ SolverInit
    /\ build \in Builds
    /\ core_op = NoOp
    /\ metadata = <<>>
    /\ meta_op = NoOp
    /\ converter = <<>>
    /\ conv_op = NoOp
    /\ peer = <<>>
    /\ disk = <<>>
    /\ program = <<>>

NextFit ==
    \E n \in TrainingSizes, outcome \in FitOutcomes, fault \in BOOLEAN :
        CurveFitSized(n, outcome, fault)

SpecFit == InitFit /\ [][NextFit]_vars

(***************************************************************************)
(* Properties.                                                             *)
(***************************************************************************)
\* the last call was name and returned ret
Last(name, ret) == op.name = name /\ op.ret = ret

RAbs(x) == <<Abs(x[1]), x[2]>>

\* the sum of the three entries of a row, in exact arithmetic
RowSum(row) == RAdd(RAdd(row[1], row[2]), row[3])

\* the unit roundoff 2^-MantissaBits of the floating-point format
UnitRoundoff == <<1, Pow2(MantissaBits)>>

\* C1 (as stated): in every reachable state each row of the IDT matrix sums
\* to exactly 1.
C1_ExactUnitRowSums ==
    \A r \in 1..3 : RowSum(IDT_matrix[r]) = One

\* C1 (amended): in every reachable state the third entry of each row of the
\* IDT matrix is the double 1.0 - a - b computed from the first two entries
\* a and b, so each row sums to 1 up to the rounding of the two
\* subtractions: | a + b + c - 1 | <= u * ( | 1.0 - a | + | c | ), with u the
\* unit roundoff.
C1_RowSumsWithinRounding ==
    \A r \in 1..3 :
        LET row == IDT_matrix[r]
            t == FSub(One, row[1])
        IN  /\ row[3] = FSub(t, row[2])
            /\ ~RLess(RMul(UnitRoundoff, RAdd(RAbs(t), RAbs(row[3]))),
                      RAbs(RSub(RowSum(row), One)))

\* a fit has succeeded and written a matrix other than the identity
C1_Witness ==
    Last("calculate_IDT_matrix", "true") /\ IDT_matrix # neutral3

\* C2 (as stated): whenever calculate_IDT_matrix has just reported failure,
\* the IDT matrix is the identity.
C2_FailureLeavesIdentity ==
    Last("calculate_IDT_matrix", "false") => IDT_matrix = neutral3

\* C2 (amended): a call of calculate_IDT_matrix that reports failure leaves
\* the IDT matrix as it was before the call (the identity only if no
\* earlier call succeeded).
C2_FailureLeavesMatrixUnchanged ==
    [][(op'.name = "calculate_IDT_matrix" /\ op'.ret = "false")
           => IDT_matrix' = IDT_matrix]_vars

\* a fit has failed after an earlier fit had written a matrix
C2_Witness ==
    Last("calculate_IDT_matrix", "false") /\ IDT_matrix # neutral3

\* C3: no call of find_illuminant( name ) or find_illuminant( wb ) reaches
\* the exit( 1 ) of the daylight or blackbody generator.
C3_GeneratorAbortUnreachable ==
    ~(op.name \in {"find_illuminant_type", "find_illuminant_wb"}
        /\ op.ret = "exit")

\* C4: calculate_WB returns false whenever the camera or the illuminant is
\* unset (neither is set by the call itself).
C4_UnsetReturnsFalse ==
    (op.name = "calculate_WB" /\ (Unset(camera, 3) \/ Unset(illuminant, 1)))
        => op.ret = "false"

\* C5: a call of find_camera or find_illuminant( name ) that returns false
\* leaves camera and illuminant as they were before the call.
C5_NotFoundLeavesDataUnchanged ==
    [][(op'.name \in {"find_camera", "find_illuminant_type"}
            /\ op'.ret = "false")
           => (camera' = camera /\ illuminant' = illuminant)]_vars

\* C6 (as stated): calculate_WB and calculate_IDT_matrix leave camera,
\* illuminant, observer and training_data as they were before the call.
C6_ComputationsLeaveDataUnchanged ==
    [][op'.name \in {"calculate_WB", "calculate_IDT_matrix"}
           => UNCHANGED data_vars]_vars

\* C6 (amended): calculate_IDT_matrix leaves camera, illuminant, observer
\* and training_data as they were; calculate_WB leaves camera, observer and
\* training_data as they were and, when it returns true, replaces the
\* illuminant by scaleLSC's rescaling of it (every sample multiplied by one
\* factor that depends on the camera); otherwise it leaves the illuminant.
C6_OnlyCalculateWBRescalesIlluminant ==
    [][/\ op'.name = "calculate_IDT_matrix" => UNCHANGED data_vars
       /\ op'.name = "calculate_WB" =>
              /\ UNCHANGED <<camera, observer, training_data>>
              /\ illuminant' = IF op'.ret = "true"
                               THEN scaleLSC(camera, illuminant)
                               ELSE illuminant]_vars

\* calculate_WB has returned true and left the illuminant with samples other
\* than those find_illuminant( "d55" ) generated
C6_Witness ==
    /\ Last("calculate_WB", "true")
    /\ illuminant.illuminant = <<"d", "5", "5">>
    /\ illuminant.main # <<calculate_daylight_SPD(55)>>
    /\ illuminant.main
           = scaleLSC(camera, [EmptyData EXCEPT
                                  !.main = <<calculate_daylight_SPD(55)>>]).main

\* the multipliers calWB gives for element k of _all_illuminants
PredictedWB(k) == calWB(camera, all_illuminants[k]).wb

\* C7: whenever find_illuminant( wb ) has just returned true, the illuminant
\* is an element of the candidate list whose SSE against wb is minimal over
\* the list, and the WB multipliers are those predicted for that element.
C7_SelectsMinimalSSE ==
    Last("find_illuminant_wb", "true") =>
        \E k \in 1..Len(all_illuminants) :
            /\ illuminant = all_illuminants[k]
            /\ WB_multipliers = PredictedWB(k)
            /\ \A j \in 1..Len(all_illuminants) :
                   ~RLess(calculate_SSE(PredictedWB(j), op.arg),
                          calculate_SSE(PredictedWB(k), op.arg))

\* C8 (as stated): whenever find_illuminant( wb ) has just returned true for
\* the multipliers of a known illuminant, every element of the candidate
\* list with those multipliers is the illuminant selected.
C8_SelectsEveryKnownIlluminant ==
    Last("find_illuminant_wb", "true") =>
        \A k \in 1..Len(all_illuminants) :
            PredictedWB(k) = op.arg => illuminant = all_illuminants[k]

\* C8 (amended): whenever find_illuminant( wb ) has just returned true for
\* the multipliers of a known illuminant, the illuminant selected is the
\* first element of the candidate list, in list order, with those
\* multipliers, and the WB multipliers are the ones passed.
C8_SelectsFirstKnownIlluminant ==
    Last("find_illuminant_wb", "true") =>
        \A k \in 1..Len(all_illuminants) :
            (/\ PredictedWB(k) = op.arg
             /\ \A j \in 1..(k - 1) : PredictedWB(j) # op.arg)
                => (illuminant = all_illuminants[k] /\ WB_multipliers = op.arg)

\* the multipliers passed belong to two elements of the list, and the first
\* of them has been selected
C8_Witness ==
    /\ Last("find_illuminant_wb", "true")
    /\ \E k, j \in 1..Len(all_illuminants) :
           /\ k < j
           /\ PredictedWB(k) = op.arg
           /\ PredictedWB(j) = op.arg
           /\ illuminant = all_illuminants[k]

\* the CCTs first, first + stride, ..., last
CCTGrid(first, last, stride) ==
    [i \in 1..((last - first) \div stride + 1) |-> first + (i - 1) * stride]

\* the illuminant tags of a list of records
Tags(list) == [i \in 1..Len(list) |-> list[i].illuminant]

\* two spectra differ by one factor
Proportional(a, b) ==
    /\ Len(a) = Len(b)
    /\ \A i \in 1..Len(a) : RMul(a[i], b[1]) = RMul(b[i], a[1])

\* the same illuminant, up to the scaling calWB applies in place
SameIlluminant(a, b) ==
    /\ a.illuminant = b.illuminant
    /\ Len(a.main) = 1
    /\ Len(b.main) = 1
    /\ Proportional(a.main[1], b.main[1])

Loads(file) == file.ok

\* C9 (as stated): once built, the candidate list holds the daylights
\* 4000 K .. 25000 K, the blackbodies 1500 K .. 4000 K (step 500 K) and one
\* element for every illuminant file.
C9_ListHasBlackbody4000AndEveryFile ==
    all_illuminants # <<>> =>
        LET daylight == CCTGrid(4000, 25000, 500)
            blackbody == CCTGrid(1500, 4000, 500)
        IN  Tags(all_illuminants) =
                [i \in 1..Len(daylight) |->
                    <<"d">> \o to_string(daylight[i] \div 100)]
                \o [i \in 1..Len(blackbody) |->
                    to_string(blackbody[i]) \o <<"k">>]
                \o [i \in 1..Len(db.illuminant) |->
                    db.illuminant[i].data.illuminant]

\* C9 (amended): once built, the candidate list holds, in this order, the
\* daylights 4000 K .. 25000 K, the blackbodies 1500 K .. 3500 K (step
\* 500 K; 4000 K is outside the blackbody generator's range) and the
\* illuminant files that load.
C9_ListEndsAt3500AndKeepsLoadedFiles ==
    all_illuminants # <<>> =>
        LET daylight == CCTGrid(4000, 25000, 500)
            blackbody == CCTGrid(1500, 3500, 500)
            files == SelectSeq(db.illuminant, Loads)
            expected ==
                [i \in 1..Len(daylight) |->
                    generate_illuminant(daylight[i],
                        <<"d">> \o to_string(daylight[i] \div 100), TRUE,
                        EmptyData)]
                \o [i \in 1..Len(blackbody) |->
                    generate_illuminant(blackbody[i],
                        to_string(blackbody[i]) \o <<"k">>, FALSE, EmptyData)]
                \o [i \in 1..Len(files) |-> files[i].data]
        IN  /\ Len(all_illuminants) = Len(expected)
            /\ \A i \in 1..Len(expected) :
                   SameIlluminant(all_illuminants[i], expected[i])

\* the list has been built from a database with a file that does not load
C9_Witness ==
    /\ Last("find_illuminant_wb", "true")
    /\ all_illuminants # <<>>
    /\ \E i \in 1..Len(db.illuminant) : ~db.illuminant[i].ok

RECURSIVE AllDigits(_)
AllDigits(s) == s = <<>> \/ (IsDigit(Head(s)) /\ AllDigits(Tail(s)))

\* the name is the letter d followed solely by digits, or digits followed by
\* the letter k (either case)
IsBuiltinForm(type) ==
    /\ Len(type) > 1
    /\ \/ tolower(Head(type)) = "d" /\ AllDigits(Tail(type))
       \/ tolower(type[Len(type)]) = "k"
            /\ AllDigits(SubSeq(type, 1, Len(type) - 1))

\* C10: a call of find_illuminant( name ) with a name that is not of the
\* built-in form is resolved by the database scan: it returns true exactly
\* when an illuminant file that loads carries the name as its tag.
C10_OtherNamesScanDatabase ==
    (op.name = "find_illuminant_type" /\ ~IsBuiltinForm(op.arg)) =>
        op.ret = Bool(\E i \in 1..Len(db.illuminant) :
                          /\ db.illuminant[i].ok
                          /\ cmp_str_equal(db.illuminant[i].data.illuminant,
                                           op.arg))

\* C11: in every reachable state the G (second) component of the WB
\* multipliers is exactly 1.
C11_GreenMultiplierIsOne ==
    WB_multipliers[2] = One

\* calculate_WB or find_illuminant( wb ) has stored multipliers other than
\* those of the constructor
C11_Witness ==
    /\ op.name \in {"calculate_WB", "find_illuminant_wb"}
    /\ op.ret = "true"
    /\ WB_multipliers # <<One, One, One>>
    /\ WB_multipliers[1] # One

\* C12: a call of calculate_WB or calculate_IDT_matrix that returns false
\* leaves the stored WB multipliers and the stored IDT matrix as they were
\* before the call.
C12_FailureLeavesOutputsUnchanged ==
    [][(op'.name \in {"calculate_WB", "calculate_IDT_matrix"}
            /\ op'.ret = "false")
           => (WB_multipliers' = WB_multipliers /\ IDT_matrix' = IDT_matrix)]_vars

\* a fit has failed on a solver that holds computed multipliers and a fitted
\* matrix
C12_Witness ==
    /\ Last("calculate_IDT_matrix", "false")
    /\ IDT_matrix # neutral3
    /\ WB_multipliers # <<One, One, One>>

\* the sum of the entries of the camera-to-XYZ matrix of the solver's
\* metadata (the inverse of the XYZ-to-camera matrix)
CameraToXYZSum == sumVector(invertV(findXYZtoCameraMtx(metadata)))

\* C14: whenever the entries of the camera-to-XYZ matrix sum to zero,
\* MetadataSolver::calculate_CAT_matrix reports a Singular failure to its
\* caller instead of returning a matrix (or ending the process).
C14_ZeroSumReportsSingular ==
    (meta_op.name = "calculate_CAT_matrix" /\ CameraToXYZSum = Zero)
        => meta_op.ret = "singular"

\* a matrix of rows, every entry times k
ScaleMatrix(k, mm) == [i \in 1..Len(mm) |-> scaleVector(mm[i], k)]

\* the matrix calculate_IDT_matrix returns for the solver's metadata with
\* baseline_exposure = 0
IDTAtZeroExposure ==
    MetadataSolver_calculate_IDT_matrix([metadata EXCEPT !.baseline_exposure = 0])

\* C15 (as claimed): the matrix calculate_IDT_matrix returns for
\* baseline_exposure = e is 2^e times the matrix it returns for
\* baseline_exposure = 0.
C15_IDTScalesWithExposure ==
    (meta_op.name = "calculate_IDT_matrix" /\ meta_op.ret = "matrix")
        => meta_op.matrix
               = ScaleMatrix(Pow2Rat(metadata.baseline_exposure), IDTAtZeroExposure)

\* C15 (amended): the matrix calculate_IDT_matrix returns does not depend on
\* baseline_exposure: it is the matrix returned for baseline_exposure = 0.
C15_IDTIndependentOfExposure ==
    (meta_op.name = "calculate_IDT_matrix" /\ meta_op.ret = "matrix")
        => meta_op.matrix = IDTAtZeroExposure

\* calculate_IDT_matrix has returned a matrix for a baseline exposure of two
\* stops and calibrations that are interpolated
C15_Witness ==
    /\ meta_op.name = "calculate_IDT_matrix"
    /\ meta_op.ret = "matrix"
    /\ metadata.baseline_exposure = 2
    /\ metadata.calibration[1].illuminant = 17
    /\ meta_op.matrix # neutral3

\* the last call of configure returned ret
Configured(ret) == conv_op.name = "configure" /\ conv_op.ret = ret

\* C13: after every successful configure exactly one colour path is active:
\* the IDT matrix is set and the CAT matrix is empty, or the IDT matrix is
\* empty and the CAT matrix is set.
C13_ExactlyOneColourPath ==
    Configured("true")
        => \/ converter.IDT_matrix # <<>> /\ converter.CAT_matrix = <<>>
           \/ converter.IDT_matrix = <<>> /\ converter.CAT_matrix # <<>>

\* a second file has been configured on the CAT path after a first one on
\* another method's leftovers: white balance by illuminant, matrix Adobe
C13_Witness ==
    /\ Configured("true")
    /\ converter.files = 2
    /\ converter.settings.WB_method = "illuminant"
    /\ converter.settings.matrix_method = "Adobe"
    /\ converter.CAT_matrix = CAT_D65_to_ACES

\* C19: with the matrix method custom, the matrix in effect after a
\* successful configure is the user's custom matrix, whichever the
\* white-balance method.
C19_CustomMatrixInEffect ==
    (Configured("true") /\ converter.settings.matrix_method = "custom")
        => /\ converter.IDT_matrix = converter.settings.custom_matrix
           /\ converter.CAT_matrix = <<>>

\* C20: when the white-balance method is not illuminant, a successful
\* configure leaves the multipliers and the two matrices that it leaves when
\* no --illuminant is given.
C20_IlluminantIgnored ==
    [][(/\ conv_op'.name = "configure"
        /\ conv_op'.ret = "true"
        /\ converter.settings.WB_method # "illuminant")
          => \E r \in {configure([converter EXCEPT !.settings.illuminant = <<>>],
                                 conv_op'.arg[1], conv_op'.arg[2], db, build)} :
                /\ converter'.WB_multipliers = r.WB_multipliers
                /\ converter'.IDT_matrix = r.IDT_matrix
                /\ converter'.CAT_matrix = r.CAT_matrix]_vars

\* the files a directory contributes: its regular entries but .DS_Store and
\* the .exr and .jpg files
AcceptedEntries(path) ==
    LET Accepted(e) == /\ is_regular_file(e)
                       /\ e.stem # ".DS_Store"
                       /\ e.ext \notin {".exr", ".EXR", ".jpg", ".JPG", ".jpeg", ".JPEG"}
    IN  SelectSeq(directory_iterator(path), Accepted)

\* the batches the claim describes for a list of paths
ExpectedBatches(files) ==
    LET Named(q) == is_regular_file(q)
        Directory(q) == exists(q) /\ is_directory(q)
        dirs == SelectSeq(files, Directory)
    IN  <<SelectSeq(files, Named)>> \o [i \in 1..Len(dirs) |-> AcceptedEntries(dirs[i])]

\* C17: once main is through with collecting, batch 0 holds the individually
\* named files in command-line order and one further batch per existing
\* directory follows, in command-line order; a nonexistent path is skipped,
\* and every collected file is processed as long as process_image succeeds.
C17_NonexistentPathsAreSkipped ==
    program.pc # "collect"
        => /\ program.batches = ExpectedBatches(program.files)
           /\ (program.pc = "exit" /\ program.last.ret \in {"none", "true"})
                  => program.attempted = Len(Flatten(ExpectedBatches(program.files)))

\* C18: when --overwrite is not set, a call of process_image for an input
\* whose output file exists returns false without configuring, and no step
\* changes an output file that exists.
C18_ExistingOutputUntouched ==
    [][~converter.settings.overwrite
          => /\ \A f \in OutputPaths : disk[f] # "absent" => disk'[f] = disk[f]
             /\ \A f \in InputPaths \cup {directory_iterator(q)[1] : q \in {r \in InputPaths : is_directory(r)}} :
                    (/\ program'.attempted = program.attempted + 1
                     /\ program'.last.input = f
                     /\ disk[OutputOf(f)] # "absent")
                        => /\ program'.last.ret = "false"
                           /\ converter' = converter]_vars

\* process_image has refused the second input of a run, whose output the
\* first input of the run has written
C18_Witness ==
    /\ ~converter.settings.overwrite
    /\ program.last.ret = "false"
    /\ program.attempted = 2
    /\ disk[OutputOf(program.last.input)] = ".cr2"
    /\ program.last.input.ext = ".dng"

\* C16: the two solvers are independent: a call on one of them leaves the
\* data and results of the other as they are, and no call on either ends
\* the process the other runs in.
C16_SolversIndependent ==
    [][/\ aborted' = aborted
       /\ peer' # peer
              => UNCHANGED <<camera, illuminant, observer, training_data,
                             all_illuminants, WB_multipliers, IDT_matrix>>
       /\ calls' # calls => peer' = peer]_vars

\* the crop mode the help text of --crop-mode describes for a value
DocumentedCropMode(crop_mode) ==
    IF crop_mode = "none" THEN "Off"
    ELSE IF crop_mode = "soft" THEN "Soft" ELSE "Hard"

\* C21: parse_parameters accepts exactly the --crop-mode values of the help
\* text, none, soft and hard, storing the crop mode each stands for, and
\* returns false for every other value.
C21_DocumentedCropModesAccepted ==
    conv_op.name = "parse_parameters"
        => IF conv_op.arg.crop_mode \in {"none", "soft", "hard"}
           THEN /\ conv_op.ret = "true"
                /\ converter.settings.crop_mode
                       = DocumentedCropMode(conv_op.arg.crop_mode)
           ELSE conv_op.ret = "false"

\* the EXIF LightSource table: the Kelvin value of each tag it lists
EXIFLightSource ==
    [tag \in {0, 1, 2, 3, 10, 17, 18, 19, 20, 21, 22} |->
        CASE tag \in {0, 1, 20} -> 5500
          [] tag = 2 -> 3500
          [] tag = 3 -> 3400
          [] tag = 10 -> 5550
          [] tag = 17 -> 2856
          [] tag = 18 -> 4874
          [] tag = 19 -> 6774
          [] tag = 21 -> 6500
          [] tag = 22 -> 7500]

\* C22: lightSourceToColorTemp returns tag - 32768 for every 16-bit tag of
\* 32768 or more, the Kelvin value of the EXIF LightSource table for every
\* tag the table lists, and 5500 for every other tag.
C22_TagToCCT ==
    core_op.name = "lightSourceToColorTemp"
        => core_op.ret =
               IF core_op.arg >= 32768 THEN core_op.arg - 32768
               ELSE IF core_op.arg \in DOMAIN EXIFLightSource
               THEN EXIFLightSource[core_op.arg]
               ELSE 5500

\* the tag 35624 = 32768 + 2856 of the direct Kelvin encoding has been
\* decoded
C22_WitnessDirect ==
    /\ core_op.name = "lightSourceToColorTemp"
    /\ core_op.arg = 35624
    /\ core_op.ret = 2856

C24_IDTAppliesCurrentWB ==
    (/\ op.name = "calculate_IDT_matrix"
     /\ ~Unset(camera, 3)
     /\ ~Unset(illuminant, 1)
     /\ ~Unset(observer, 3)
     /\ training_data.main # <<>>)
        => /\ fit_memo[1] = FitInputs
           /\ WB_multipliers = calWB(camera, illuminant).wb

\* the converter with the transform of no file configured yet
FreshConverter(conv) ==
    [conv EXCEPT !.WB_multipliers = <<>>, !.IDT_matrix = <<>>,
                 !.CAT_matrix = <<>>]

\* C25: the WB multipliers, the IDT matrix and the CAT matrix a successful
\* configure establishes depend only on the file and the settings: they are
\* those the same call establishes on a converter that has configured no
\* file before.
C25_ConfigureIndependentOfHistory ==
    [][(conv_op'.name = "configure" /\ conv_op'.ret = "true")
           => \E r \in {configure(FreshConverter(converter), conv_op'.arg[1],
                                  conv_op'.arg[2], db, build)} :
                  /\ r.ret = "true"
                  /\ converter'.WB_multipliers = r.WB_multipliers
                  /\ converter'.IDT_matrix = r.IDT_matrix
                  /\ converter'.CAT_matrix = r.CAT_matrix]_vars

\* the stages of process_image in the order the claim gives
StageOrder ==
    <<"make_output_path", "configure", "load_image", "apply_matrix",
      "apply_scale", "apply_crop", "save_image">>

\* C26: process_image runs its stages in the order make_output_path,
\* configure, load_image, apply_matrix, apply_scale, apply_crop, save_image
\* and stops at the first one that fails, returning false: the stages it has
\* called are a prefix of that order, a stage that returned false is the
\* last one called and the result is then false, save_image is called only
\* as the seventh stage, and true is returned only when all seven were
\* called and none returned false.
C26_StagesInOrder ==
    conv_op.name = "process_image"
        => LET stages == conv_op.arg.stages
           IN  /\ Len(stages) \in 1 .. Len(StageOrder)
               /\ stages = SubSeq(StageOrder, 1, Len(stages))
               /\ conv_op.arg.failed # "none"
                      => /\ conv_op.arg.failed = stages[Len(stages)]
                         /\ conv_op.ret = "false"
               /\ conv_op.ret = "true"
                      => stages = StageOrder /\ conv_op.arg.failed = "none"
               /\ (\E i \in 1 .. Len(stages) : stages[i] = "save_image")
                      => Len(stages) = Len(StageOrder)

\* process_image has stopped at apply_scale, which returned false, after
\* the four stages before it
C26_WitnessStopped ==
    /\ conv_op.name = "process_image"
    /\ conv_op.arg.failed = "apply_scale"
    /\ Len(conv_op.arg.stages) = 5
    /\ conv_op.ret = "false"

\* C27: main processes the files batch by batch in collection order; after
\* the first file whose process_image fails no further file is processed
\* and the exit status is 1; when every collected file has been converted
\* the exit status is 0.
C27_StopsAtFirstFailure ==
    /\ [][program'.attempted # program.attempted
             => /\ program.last.ret \in {"none", "true"}
                /\ program'.attempted = program.attempted + 1
                /\ program'.last.input
                       = Flatten(program.batches)[program.attempted + 1]]_vars
    /\ [](program.pc = "exit"
             => /\ program.last.ret = "false" => program.exit_code = 1
                /\ (/\ program.next = Len(program.files) + 1
                    /\ program.attempted = Len(Flatten(program.batches))
                    /\ program.last.ret # "false")
                       => program.exit_code = 0)

\* main has returned 1 after the second of three files failed
C27_WitnessFailure ==
    /\ program.pc = "exit"
    /\ program.exit_code = 1
    /\ program.attempted = 2
    /\ Len(Flatten(program.batches)) = 3
    /\ program.last.ret = "false"

\* a <= b on doubles
RLeq(a, b) == ~RLess(b, a)

\* C28: for every DNG metadata input, two calibrations of the same colour
\* temperature included, the mired at which findXYZtoCameraMtx interpolates
\* the matrix it returns lies within [lomir, himir], the clamped range of
\* the two calibration illuminants.
C28_EstimateWithinRange ==
    (core_op.name = "findXYZtoCameraMtx" /\ core_op.ret = "returned")
        => /\ RLeq(MiredRange(core_op.arg.tags).lomir,
                   core_op.frame.estimatedMired)
           /\ RLeq(core_op.frame.estimatedMired,
                   MiredRange(core_op.arg.tags).himir)

\* the zero of the straight line through ( m0, e0 ) and ( m1, e1 )
ZeroCrossing(m0, e0, m1, e1) ==
    RSub(m1, RDiv(RMul(e1, RSub(m1, m0)), RSub(e1, e0)))

\* C29: when the residuals of two consecutive steps of the walk have
\* opposite signs, the mired accepted is the zero crossing of the straight
\* line through ( last mired, last residual ) and ( mired, residual ), and
\* so lies between the last step and this one.
C29_CrossingInterpolated ==
    [][(/\ core_op.name = "findXYZtoCameraMtx"
        /\ core_op.ret = "running"
        /\ core_op'.ret = "running"
        /\ core_op.frame.mir # MiredRange(core_op.arg.tags).lomir
        /\ RSign(core_op'.frame.lerror) * RSign(core_op.frame.lastError) < 0)
           => /\ core_op'.frame.pc = "break"
              /\ core_op'.frame.estimatedMired
                     = ZeroCrossing(core_op.frame.lastMired,
                                    core_op.frame.lastError,
                                    core_op.frame.mir, core_op'.frame.lerror)
              /\ RLeq(core_op.frame.lastMired, core_op'.frame.estimatedMired)
              /\ RLeq(core_op'.frame.estimatedMired, core_op.frame.mir)]_vars


\* C30: calculate_IDT_matrix handles a training set of any size n >= 1: the
\* fit reads only the patches 0 .. n - 1 and forms 3 n residuals; it does
\* not index beyond the n patches supplied and does not assume there are
\* 190 of them.
C30_AnyTrainingSize ==
    core_op.name = "curveFit"
        => /\ core_op.ret # "fault"
           /\ core_op.read = 0 .. core_op.arg - 1
           /\ core_op.written = 0 .. 3 * core_op.arg - 1
           /\ core_op.declared = 3 * core_op.arg

\* the same for the one size written into the code
ReferenceSizeFits ==
    (core_op.name = "curveFit" /\ core_op.arg = PatchesAssumed)
        => /\ core_op.ret # "fault"
           /\ core_op.read = 0 .. core_op.arg - 1
           /\ core_op.written = 0 .. 3 * core_op.arg - 1
           /\ core_op.declared = 3 * core_op.arg

====
